---- MODULE Spec2Model ----
(***************************************************************************)
(* A model of the libsass parser (src/src/parser.cpp).                     *)
(*                                                                         *)
(* The statement level of the recursive-descent parser is a state machine  *)
(* over a buffer of statement items: the cursor `position`, the block      *)
(* stack, the scope stack, the nesting counter and the pending handler     *)
(* activations (`frames`, the C++ call stack between parse_block_nodes      *)
(* loops).  An item is the text of one statement head up to and including  *)
(* its `{` or `;`-terminated value, or a lone `}` / `;`.                     *)
(*                                                                         *)
(* read_bom and parse_import are modelled byte by byte and entry by entry  *)
(* under their own specifications (SpecBom, SpecImport).                   *)
(***************************************************************************)
EXTENDS Integers, Sequences, FiniteSets, TLC

VARIABLES
  source,       \* the buffer, as far as the parser has looked at it (items)
  ended,        \* TRUE once the end of the buffer has been seen
  position,     \* the cursor: number of items consumed
  block_stack,  \* Parser::block_stack
  stack,        \* Parser::stack (the scope stack)
  nestings,     \* Parser::nestings (the NESTING_GUARD counter)
  frames,       \* pending handler activations, innermost last
  status,       \* "init", "running", "done" (parse returned), "error" (thrown)
  error_msg,    \* message of the thrown error
  root,         \* <<Block>> returned by parse(), <<>> before
  calls,        \* importer / resolver invocations so far, in order
  vocab,        \* the vocabulary the unread part of the buffer is drawn from
  bom,          \* read_bom: [source, position, status, error_msg]
  imp,          \* parse_import: state of one @import statement
  sub           \* a sub-parser run on its own: [fn, input, status, ...]

pvars == <<source, ended, position, block_stack, stack, nestings, frames,
           status, error_msg, root, calls, vocab>>
vars == <<pvars, bom, imp, sub>>

----------------------------------------------------------------------------
(* Bounds of the model *)

\* longest buffer, in items, of the widest vocabulary
MaxTokens == 6
\* ceiling of the nesting guard (MAX_NESTING of the build, scaled down)
MAX_NESTING == 2

----------------------------------------------------------------------------
(* Sequences as stacks *)

Top(s) == s[Len(s)]
Pop(s) == SubSeq(s, 1, Len(s) - 1)
Range(s) == {s[i] : i \in DOMAIN s}
Min(S) == CHOOSE x \in S : \A y \in S : x <= y

----------------------------------------------------------------------------
(* AST nodes *)

\* a Block: its position, the root flag and its statements
Block(pstate, is_root) == [pstate |-> pstate, is_root |-> is_root, stmts |-> <<>>]

\* a statement: block and alternative are <<>> (null) or <<Block>>;
\* arg holds what else a claim reads of the node, as numbers
Node(type, pstate, block, alternative, arg) ==
  [type |-> type, pstate |-> pstate, block |-> block,
   alternative |-> alternative, arg |-> arg]

Leaf(type, pstate) == Node(type, pstate, <<>>, <<>>, <<>>)

\* block->append(node) on the top of the block stack
AppendTop(bs, node) == [bs EXCEPT ![Len(bs)].stmts = Append(@, node)]

----------------------------------------------------------------------------
(* Error messages *)

ImportNestingMsg == "Import directives may not be used within control directives or mixins."
ElseMsg == "Invalid CSS: @else must come after @if"
ContentExistsMsg == "Cannot call content-exists() except within a mixin."
IllegalNestingMsg == "Illegal nesting: Only properties may be nested beneath properties."
ExpectedSelectorMsg == "Invalid CSS after : expected selector or at-rule, was "
ExpectedOneSelectorMsg == "Invalid CSS after : expected 1 selector or at-rule, was "
ExpectedRBraceMsg == "Invalid CSS after : expected \"}\", was "
NestingLimitMsg == "Code too deeply nested"

----------------------------------------------------------------------------
(* Items and the prelexers that match at their start *)

Openers == {"sel{", "@if{", "@if ce{", "@for{", "@each{", "@while{", "@media{",
            "@at-root{", "@at-root sel{", "@include{", "@supports{",
            "@mixin{", "@function{", "@x{", "p:{"}

Items == Openers \cup
         {"$v:1", "$v:ce", "$v:c_e", "@error", "@debug", "@warn", "@return",
          "@import'q'", "@import url", "@extend", "@include", "@content",
          "@charset", "@else{", "@else if{", "@x", "p:v", "}", ";"}

\* the keyword prelexer that matches an at-rule item
Keyword(t) ==
  CASE t = "@error" -> "kwd_err"
    [] t = "@debug" -> "kwd_dbg"
    [] t = "@warn" -> "kwd_warn"
    [] t \in {"@if{", "@if ce{"} -> "kwd_if_directive"
    [] t = "@for{" -> "kwd_for_directive"
    [] t = "@each{" -> "kwd_each_directive"
    [] t = "@while{" -> "kwd_while_directive"
    [] t = "@return" -> "kwd_return_directive"
    [] t \in {"@import'q'", "@import url"} -> "kwd_import"
    [] t = "@extend" -> "kwd_extend"
    [] t = "@media{" -> "kwd_media"
    [] t \in {"@at-root{", "@at-root sel{"} -> "kwd_at_root"
    [] t \in {"@include", "@include{"} -> "kwd_include_directive"
    [] t = "@content" -> "kwd_content_directive"
    [] t = "@supports{" -> "kwd_supports_directive"
    [] t = "@mixin{" -> "kwd_mixin"
    [] t = "@function{" -> "kwd_function"
    [] t = "@charset" -> "kwd_charset_directive"
    [] t \in {"@else{", "@else if{"} -> "else_kwd"
    [] OTHER -> "at_keyword"

\* every prelexer of the statement dispatch that matches at the start of t
Lexers(t) ==
  CASE t \in {"$v:1", "$v:ce", "$v:c_e"} -> {"variable"}
    [] t = "sel{" -> {"selector"}
    [] t \in {"p:v", "p:{", "}", ";"} -> {}
    [] OTHER -> {Keyword(t), "at_keyword"}

\* the function the value of an item calls, in chunks of its spelling
CallName(t) ==
  CASE t \in {"$v:ce", "@if ce{"} -> <<"content", "-", "exists">>
    [] t = "$v:c_e" -> <<"content", "_", "exists">>
    [] OTHER -> <<>>

\* Util::normalize_underscores
normalize_underscores(name) ==
  [i \in DOMAIN name |-> IF name[i] = "_" THEN "-" ELSE name[i]]

----------------------------------------------------------------------------
(* parse_block_node: the order of the branches *)

\* not the code: the generic at-rule tried before else_kwd
Branches_generic_first ==
  <<"variable", "kwd_err", "kwd_dbg", "kwd_warn", "kwd_if_directive",
    "kwd_for_directive", "kwd_each_directive", "kwd_while_directive",
    "kwd_return_directive", "kwd_import", "kwd_extend", "selector",
    "kwd_media", "kwd_at_root", "kwd_include_directive",
    "kwd_content_directive", "kwd_supports_directive", "kwd_mixin",
    "kwd_function", "kwd_charset_directive", "at_keyword", "else_kwd">>

\* the lexers in the order parse_block_node tries them
Branches ==
  <<"variable", "kwd_err", "kwd_dbg", "kwd_warn", "kwd_if_directive",
    "kwd_for_directive", "kwd_each_directive", "kwd_while_directive",
    "kwd_return_directive", "kwd_import", "kwd_extend", "selector",
    "kwd_media", "kwd_at_root", "kwd_include_directive",
    "kwd_content_directive", "kwd_supports_directive", "kwd_mixin",
    "kwd_function", "kwd_charset_directive", "else_kwd", "at_keyword">>

\* the first branch of the else-if cascade whose prelexer matches; the
\* two trailing branches (root check, declaration) take what is left
Dispatch(t) ==
  LET hits == {i \in DOMAIN Branches : Branches[i] \in Lexers(t)}
  IN IF hits = {} THEN "declaration" ELSE Branches[Min(hits)]

----------------------------------------------------------------------------
(* Scope checks *)

\* not the code: the outermost scope decides
ImportScopeError_bottom(st, is_url) ==
  LET parent == IF st = <<>> THEN "Rules" ELSE st[1]
  IN IF parent \notin {"Function", "Root", "Rules", "Media"} /\ ~is_url
     THEN ImportNestingMsg ELSE ""

\* parse_block_node, kwd_import branch: the check before parse_import
ImportScopeError(st, is_url) ==
  LET parent == IF st = <<>> THEN "Rules" ELSE Top(st)
  IN IF parent \notin {"Function", "Root", "Rules", "Media"} /\ ~is_url
     THEN ImportNestingMsg ELSE ""

\* not the code: only a call at the root is refused
ContentExistsError_root_only(name, st) ==
  IF normalize_underscores(name) = <<"content", "-", "exists">> /\ Top(st) = "Root"
  THEN ContentExistsMsg ELSE ""

\* parse_function_call: the check on the called name
ContentExistsError(name, st) ==
  IF normalize_underscores(name) = <<"content", "-", "exists">> /\ Top(st) # "Mixin"
  THEN ContentExistsMsg ELSE ""

\* not the code: @warn allowed everywhere
WarningScopeError_none(st) == ""

\* parse_warning: the check before the value is parsed
WarningScopeError(st) ==
  IF Top(st) \notin {"Root", "Function", "Mixin", "Control", "Rules"}
  THEN IllegalNestingMsg ELSE ""

\* parse_error
ErrorScopeError(st) ==
  IF Top(st) \notin {"Root", "Function", "Mixin", "Control", "Rules"}
  THEN IllegalNestingMsg ELSE ""

\* parse_debug
DebugScopeError(st) ==
  IF Top(st) \notin {"Root", "Function", "Mixin", "Control", "Rules"}
  THEN IllegalNestingMsg ELSE ""

\* NESTING_GUARD(nestings): the raised counter, and whether it throws
NestingGuard(n) == [value |-> n + 1, error |-> n + 1 > MAX_NESTING]

----------------------------------------------------------------------------
(* parse_import: the entries of one @import statement *)

\* most includes one importer or resolver call adds
MaxIncs == 2

\* the state of parse_import on entering it
ImportStart(entries) ==
  [entries |-> entries, i |-> 1, first |-> TRUE, to_import |-> <<>>,
   urls |-> <<>>, incs |-> <<>>, calls |-> <<>>, j |-> 1,
   answers |-> <<>>, phase |-> "lex", error_msg |-> "", appended |-> <<>>]

\* one round of the do-while loop: the entry under the cursor is lexed
LexEntry(im) ==
  LET e == IF im.i <= Len(im.entries) THEN im.entries[im.i] ELSE "none"
      more == im.i < Len(im.entries)
      next == IF more THEN "lex" ELSE "resolve"
  IN CASE e = "quoted" ->
            [im EXCEPT !.to_import = Append(@, [path |-> im.i, url |-> FALSE]),
                       !.i = im.i + 1, !.first = FALSE, !.phase = next]
       [] e = "url" ->
            [im EXCEPT !.to_import = Append(@, [path |-> 0, url |-> TRUE]),
                       !.i = im.i + 1, !.first = FALSE, !.phase = next]
       [] OTHER ->
            [im EXCEPT !.phase = "error",
                       !.error_msg =
                         IF im.first
                         THEN "@import directive requires a url or quoted path"
                         ELSE "expecting another url or quoted path in @import list"]

NewIncs(path, n) == [k \in 1..n |-> <<path, k>>]

\* not the code: to_import walked from its end
ResolveLocation_reversed(im, outcome) ==
  LET loc == im.to_import[Len(im.to_import) + 1 - im.j]
      next == IF im.j < Len(im.to_import) THEN "resolve" ELSE "done"
  IN IF loc.url
     THEN [im EXCEPT !.urls = Append(@, im.j), !.j = im.j + 1, !.phase = next]
     ELSE [im EXCEPT
             !.calls = IF outcome.handled
                       THEN Append(@, <<"importer", loc.path>>)
                       ELSE @ \o <<(<<"importer", loc.path>>), (<<"resolver", loc.path>>)>>,
             !.incs = @ \o NewIncs(loc.path, outcome.n),
             !.answers = Append(@, [path |-> loc.path, handled |-> outcome.handled,
                                    n |-> outcome.n]),
             !.j = im.j + 1, !.phase = next]

\* one round of the for loop over to_import: a url is kept, a path goes
\* to the importers and, when none takes it, to import_url
ResolveLocation(im, outcome) ==
  LET loc == im.to_import[im.j]
      next == IF im.j < Len(im.to_import) THEN "resolve" ELSE "done"
  IN IF loc.url
     THEN [im EXCEPT !.urls = Append(@, im.j), !.j = im.j + 1, !.phase = next]
     ELSE [im EXCEPT
             !.calls = IF outcome.handled
                       THEN Append(@, <<"importer", loc.path>>)
                       ELSE @ \o <<(<<"importer", loc.path>>), (<<"resolver", loc.path>>)>>,
             !.incs = @ \o NewIncs(loc.path, outcome.n),
             !.answers = Append(@, [path |-> loc.path, handled |-> outcome.handled,
                                    n |-> outcome.n]),
             !.j = im.j + 1, !.phase = next]

\* parse_block_node after parse_import: the Import node when it holds a
\* url, then one Import_Stub for every include
ImportNodes(im, pstate) ==
  (IF im.urls # <<>> THEN <<Leaf("Import", pstate)>> ELSE <<>>)
  \o [k \in 1..Len(im.incs) |-> Node("Import_Stub", pstate, <<>>, <<>>, im.incs[k])]

\* what the importers and import_url can answer for one path
Outcomes ==
  {[handled |-> h, n |-> n] : h \in BOOLEAN, n \in 0..MaxIncs} \
  {[handled |-> FALSE, n |-> 0]}

\* parse_import on a single entry, as the statement items hold it
ImportOne(kind, pstate, outcome) ==
  LET lexed == LexEntry(ImportStart(<<kind>>))
      done == ResolveLocation(lexed, outcome)
  IN [done EXCEPT !.calls = [c \in DOMAIN done.calls |-> <<done.calls[c][1], pstate>>],
                  !.incs = [k \in DOMAIN done.incs |-> <<pstate, k>>]]

----------------------------------------------------------------------------
(* The buffers the parser is run on *)

\* A buffer is a sequence of items of one vocabulary, no longer than the
\* vocabulary's length.
Vocabularies ==
  { [items |-> {"@if{", "@else if{", "@else{", "}", "$v:1"},
     len |-> MaxTokens],
    [items |-> {"sel{", "@media{", "@function{", "@mixin{", "@if{",
                "@import'q'", "@import url", "}"},
     len |-> MaxTokens - 2],
    [items |-> {"@for{", "@each{", "@while{", "@if{", "@else{",
                "@import'q'", "@warn", "}"},
     len |-> MaxTokens - 2],
    [items |-> {"sel{", "p:{", "@mixin{", "@function{", "@if{",
                "@warn", "@error", "@debug", "}"},
     len |-> MaxTokens - 2],
    [items |-> {"@mixin{", "sel{", "@if{", "p:{", "$v:ce", "$v:c_e",
                "@if ce{", "}"},
     len |-> MaxTokens - 2],
    [items |-> {"sel{", "@if{", "@media{", "@include{", "@supports{",
                "@x{", "@at-root{", "@at-root sel{", "}"},
     len |-> MaxTokens - 2],
    [items |-> {"@return", "@extend", "@content", "@charset", "@include",
                "@x", "p:v", "sel{", "}", ";"},
     len |-> MaxTokens - 3],
    [items |-> {"@if{", "@else if{", "@else{", "}", ";"},
     len |-> MaxTokens - 2],
    [items |-> {"@if{", "@else{", "@for{", "@each{", "@while{", "@at-root{",
                "p:v", "}"},
     len |-> MaxTokens - 2] }

\* t is the item under the cursor; a part of the buffer the parser has not
\* looked at yet is chosen as it is looked at
Under(t) ==
  /\ status = "running"
  /\ IF position < Len(source)
     THEN t = source[position + 1] /\ UNCHANGED <<source, ended>>
     ELSE /\ ~ended
          /\ Len(source) < vocab.len
          /\ t \in vocab.items
          /\ source' = Append(source, t)
          /\ UNCHANGED ended

\* the cursor is at the end of the buffer
AtEnd ==
  /\ status = "running"
  /\ position = Len(source)
  /\ ended' = TRUE
  /\ UNCHANGED source

----------------------------------------------------------------------------
(* State after construction (Parser::from_c_str) *)

IdleBom == [source |-> <<>>, position |-> 0, status |-> "idle", error_msg |-> ""]
IdleImp == [phase |-> "idle"]
IdleSub == [fn |-> "idle"]

InitParser ==
  /\ source = <<>>
  /\ ended = FALSE
  /\ position = 0
  /\ block_stack = <<Block(0, TRUE)>>
  /\ stack = <<"Root">>
  /\ nestings = 0
  /\ frames = <<>>
  /\ status = "init"
  /\ error_msg = ""
  /\ root = <<>>
  /\ calls = <<>>

Init ==
  /\ InitParser
  /\ vocab \in Vocabularies
  /\ bom = IdleBom
  /\ imp = IdleImp
  /\ sub = IdleSub

----------------------------------------------------------------------------
(* Steps of the parser *)

Frame(fn, pstate, phase, is_root, saved) ==
  [fn |-> fn, pstate |-> pstate, phase |-> phase, kept |-> <<>>,
   root |-> is_root, alt_pstate |-> 0, saved |-> saved]

\* the parser is in the loop of parse_block_nodes
InLoop ==
  /\ status = "running"
  /\ IF frames = <<>> THEN TRUE
     ELSE Top(frames).phase \in {"body", "then", "else"}

\* the statement goes on: the parser is back in a parse_block_nodes loop
\* or waits for the alternative of an @if
Continue(pos, bs, st, ns, fr, cl) ==
  /\ position' = pos
  /\ block_stack' = bs
  /\ stack' = st
  /\ nestings' = ns
  /\ frames' = fr
  /\ calls' = cl
  /\ UNCHANGED <<status, error_msg, root, vocab, bom, imp, sub>>

\* error(msg) / css_error(...): the exception ends the parse
Throw(msg) ==
  /\ status' = "error"
  /\ error_msg' = msg
  /\ UNCHANGED <<position, block_stack, stack, nestings, frames, calls,
                 root, vocab, bom, imp, sub>>

\* a statement without a block: the node is appended to the open block
Simple(type) ==
  Continue(position + 1, AppendTop(block_stack, Leaf(type, position + 1)),
           stack, nestings, frames, calls)

\* a handler that goes on in parse_css_block: the scope it pushes (if
\* any), the new block on the block stack, the handler waiting for `}`
Open(fn, scope, phase, is_root, ns) ==
  Continue(position + 1,
           Append(block_stack, Block(position + 1, is_root)),
           IF scope = "" THEN stack ELSE Append(stack, scope),
           ns,
           Append(frames, Frame(fn, position + 1, phase,
                                Top(block_stack).is_root, nestings)),
           calls)

\* not the code: the block of the nested If taken as the alternative
ElseIfAlternative_unwrapped(pstate, node) == node.block[1]

\* the alternative parse_if_directive builds for an `@else if`:
\* a fresh Block that holds the nested If
ElseIfAlternative(pstate, node) ==
  [Block(pstate, FALSE) EXCEPT !.stmts = <<node>>]

RECURSIVE ReturnNode(_, _, _, _)
\* a handler returns `node` to its caller: parse_block_node appends it to
\* the open block; parse_if_directive (waiting in `@else if`) and
\* parse_at_root_block (waiting for its ruleset) wrap it and return too
ReturnNode(fr, st, bs, node) ==
  IF fr # <<>> /\ Top(fr).phase = "wait"
  THEN LET f == Top(fr)
       IN IF f.fn = "if"
          THEN ReturnNode(Pop(fr), Pop(st), bs,
                 Node("If", f.pstate, f.kept,
                      <<ElseIfAlternative(f.alt_pstate, node)>>, <<>>))
          ELSE ReturnNode(Pop(fr), Pop(st), bs,
                 Node("At_Root_Block", f.pstate,
                      <<[Block(node.pstate, TRUE) EXCEPT !.stmts = <<node>>]>>,
                      <<>>, <<>>))
  ELSE [frames |-> fr, stack |-> st, block_stack |-> AppendTop(bs, node)]

Returned(pos, r, ns) ==
  Continue(pos, r.block_stack, r.stack, ns, r.frames, calls)

----------------------------------------------------------------------------
(* parse() and parse_block_nodes *)

\* parse(): the root block is created and pushed, the loop is entered
Parse ==
  /\ status = "init"
  /\ status' = "running"
  /\ block_stack' = Append(block_stack, Block(0, TRUE))
  /\ UNCHANGED <<source, ended, position, stack, nestings, frames,
                 error_msg, root, calls, vocab, bom, imp, sub>>

\* not the code: the root returned wherever the loop stopped
ParseFinish_unchecked(pos, end_of_buffer) == ""

\* parse(): the check of the cursor after the loop has returned
ParseFinish(pos, end_of_buffer) ==
  IF pos # end_of_buffer THEN ExpectedSelectorMsg ELSE ""

\* parse(): the loop of the root block has returned (at the end of the
\* buffer or in front of a `}`); the block is popped and returned, unless
\* the cursor is not at the end
ParseReturn ==
  /\ InLoop
  /\ frames = <<>>
  /\ \/ AtEnd
     \/ Under("}")
  /\ LET e == ParseFinish(position, Len(source'))
     IN /\ status' = IF e = "" THEN "done" ELSE "error"
        /\ error_msg' = e
        /\ root' = IF e = "" THEN <<Top(block_stack)>> ELSE <<>>
  /\ block_stack' = Pop(block_stack)
  /\ UNCHANGED <<position, stack, nestings, frames, calls, vocab, bom, imp, sub>>

\* not the code: the `;` is peeked at and left under the cursor
LexSemicolon_peek(pos) == pos

\* lex < exactly<';'> >: the cursor after the `;`
LexSemicolon(pos) == pos + 1

\* parse_block_nodes: a `;` between statements is lexed
Semicolon ==
  /\ InLoop
  /\ Under(";")
  /\ Continue(LexSemicolon(position), block_stack, stack, nestings, frames,
              calls)

\* parse_css_block: the loop returned at the end of the buffer, the
\* closing `}` is missing
UnclosedBlock ==
  /\ InLoop
  /\ frames # <<>>
  /\ AtEnd
  /\ Throw(ExpectedRBraceMsg)

\* what the handler of an open block does with it once it is closed
NodeType(fn) ==
  CASE fn = "ruleset" -> "Ruleset"
    [] fn \in {"mixin", "function"} -> "Definition"
    [] fn = "media" -> "MediaRule"
    [] fn = "at_root" -> "At_Root_Block"
    [] fn = "for" -> "For"
    [] fn = "each" -> "Each"
    [] fn = "while" -> "While"
    [] fn = "include" -> "Mixin_Call"
    [] fn = "supports" -> "Supports_Block"
    [] OTHER -> "Directive"

\* not the code: parseMediaRule leaves its scope on the stack
PopsScope_but_media(fn) ==
  fn \in {"ruleset", "mixin", "function", "at_root", "for", "each",
          "while", "declaration"}

\* the handlers that pushed a scope and pop it after their block
PopsScope(fn) ==
  fn \in {"ruleset", "mixin", "function", "media", "at_root", "for", "each",
          "while", "declaration"}

\* parse_css_block returns: `}` is lexed, the block is popped, and the
\* handler that asked for the block finishes its node
BlockEnd ==
  /\ InLoop
  /\ frames # <<>>
  /\ Top(frames).phase = "body"
  /\ Under("}")
  /\ LET f == Top(frames)
         b == Top(block_stack)
         bs == Pop(block_stack)
         st == IF PopsScope(f.fn) THEN Pop(stack) ELSE stack
         ns == IF f.fn = "ruleset" THEN f.saved ELSE nestings
     IN IF f.fn = "declaration"
        THEN \* decl->block(parse_block()): decl is the last statement
             Continue(position + 1,
                      [bs EXCEPT ![Len(bs)].stmts[Len(bs[Len(bs)].stmts)].block = <<b>>],
                      st, ns, Pop(frames), calls)
        ELSE Returned(position + 1,
                      ReturnNode(Pop(frames), st, bs,
                                 Node(NodeType(f.fn), f.pstate, <<b>>, <<>>,
                                      IF f.fn = "ruleset" /\ f.root
                                      THEN <<1>> ELSE <<>>)),
                      ns)

----------------------------------------------------------------------------
(* parse_if_directive *)

\* `@if` is lexed: scope Control, the predicate, the block (which
\* inherits the root flag of the open block)
ParseIfDirective ==
  \E t \in Items :
    /\ InLoop
    /\ Under(t)
    /\ Dispatch(t) = "kwd_if_directive"
    /\ LET e == ContentExistsError(CallName(t), Append(stack, "Control"))
       IN IF e # "" THEN Throw(e)
          ELSE Open("if", "Control", "then", Top(block_stack).is_root, nestings)

\* the block of the @if is closed; the handler looks for an else
IfBlockEnd ==
  /\ InLoop
  /\ frames # <<>>
  /\ Top(frames).phase = "then"
  /\ Under("}")
  /\ Continue(position + 1, Pop(block_stack), stack, nestings,
              [frames EXCEPT ![Len(frames)].phase = "after",
                             ![Len(frames)].kept = <<Top(block_stack)>>],
              calls)

\* lex_css< elseif_directive >: the alternative is a new Block that
\* holds the If of a nested parse_if_directive(true)
IfElseIf ==
  /\ status = "running"
  /\ frames # <<>>
  /\ Top(frames).phase = "after"
  /\ Under("@else if{")
  /\ Continue(position + 1,
              Append(block_stack, Block(position + 1, Top(block_stack).is_root)),
              Append(stack, "Control"),
              nestings,
              Append([frames EXCEPT ![Len(frames)].phase = "wait",
                                    ![Len(frames)].alt_pstate = position + 1],
                     Frame("if", position + 1, "then",
                           Top(block_stack).is_root, nestings)),
              calls)

\* lex_css< kwd_else_directive >: the alternative is the block that follows
IfElse ==
  /\ status = "running"
  /\ frames # <<>>
  /\ Top(frames).phase = "after"
  /\ Under("@else{")
  /\ Continue(position + 1,
              Append(block_stack, Block(position + 1, Top(frames).root)),
              stack, nestings,
              [frames EXCEPT ![Len(frames)].phase = "else"],
              calls)

\* not the code: only `@else` is looked for behind the block
ElseKeywords_else_only == {"@else{"}

\* what parse_if_directive looks for behind its block: elseif_directive,
\* kwd_else_directive
ElseKeywords == {"@else if{", "@else{"}

\* neither follows: the If is returned without an alternative
IfNoElse ==
  /\ status = "running"
  /\ frames # <<>>
  /\ Top(frames).phase = "after"
  /\ \/ AtEnd
     \/ \E t \in Items \ ElseKeywords : Under(t)
  /\ LET f == Top(frames)
     IN Returned(position,
                 ReturnNode(Pop(frames), Pop(stack), block_stack,
                            Node("If", f.pstate, f.kept, <<>>, <<>>)),
                 nestings)

\* the block of the `@else` is closed: the If is returned with it
ElseBlockEnd ==
  /\ InLoop
  /\ frames # <<>>
  /\ Top(frames).phase = "else"
  /\ Under("}")
  /\ LET f == Top(frames)
     IN Returned(position + 1,
                 ReturnNode(Pop(frames), Pop(stack), Pop(block_stack),
                            Node("If", f.pstate, f.kept, <<Top(block_stack)>>, <<>>)),
                 nestings)

----------------------------------------------------------------------------
(* parse_block_node: the statements *)

\* `$var: value`; a function call in the value goes through
\* parse_function_call
ParseAssignment ==
  \E t \in Items :
    /\ InLoop
    /\ Under(t)
    /\ Dispatch(t) = "variable"
    /\ LET e == ContentExistsError(CallName(t), stack)
       IN IF e # "" THEN Throw(e) ELSE Simple("Assignment")

ParseError ==
  \E t \in Items :
    /\ InLoop
    /\ Under(t)
    /\ Dispatch(t) = "kwd_err"
    /\ LET e == ErrorScopeError(stack)
       IN IF e # "" THEN Throw(e) ELSE Simple("Error")

ParseDebug ==
  \E t \in Items :
    /\ InLoop
    /\ Under(t)
    /\ Dispatch(t) = "kwd_dbg"
    /\ LET e == DebugScopeError(stack)
       IN IF e # "" THEN Throw(e) ELSE Simple("Debug")

ParseWarning ==
  \E t \in Items :
    /\ InLoop
    /\ Under(t)
    /\ Dispatch(t) = "kwd_warn"
    /\ LET e == WarningScopeError(stack)
       IN IF e # "" THEN Throw(e) ELSE Simple("Warning")

ParseForDirective ==
  \E t \in Items :
    /\ InLoop
    /\ Under(t)
    /\ Dispatch(t) = "kwd_for_directive"
    /\ Open("for", "Control", "body", Top(block_stack).is_root, nestings)

ParseEachDirective ==
  \E t \in Items :
    /\ InLoop
    /\ Under(t)
    /\ Dispatch(t) = "kwd_each_directive"
    /\ Open("each", "Control", "body", Top(block_stack).is_root, nestings)

ParseWhileDirective ==
  \E t \in Items :
    /\ InLoop
    /\ Under(t)
    /\ Dispatch(t) = "kwd_while_directive"
    /\ Open("while", "Control", "body", Top(block_stack).is_root, nestings)

ParseReturnDirective ==
  \E t \in Items :
    /\ InLoop
    /\ Under(t)
    /\ Dispatch(t) = "kwd_return_directive"
    /\ Simple("Return")

\* the kwd_import branch: the scope check, parse_import, then the Import
\* node (if it holds a url) and the Import_Stub nodes are appended
ParseImport ==
  \E t \in Items :
    /\ InLoop
    /\ Under(t)
    /\ Dispatch(t) = "kwd_import"
    /\ LET e == ImportScopeError(stack, t = "@import url")
       IN IF e # "" THEN Throw(e)
          ELSE \E o \in {x \in Outcomes : x.n = 1} :
                 LET im == ImportOne(IF t = "@import url" THEN "url" ELSE "quoted",
                                     position + 1, o)
                     nodes == ImportNodes(im, position + 1)
                 IN Continue(position + 1,
                             [block_stack EXCEPT ![Len(block_stack)].stmts = @ \o nodes],
                             stack, nestings, frames, calls \o im.calls)

ParseExtend ==
  \E t \in Items :
    /\ InLoop
    /\ Under(t)
    /\ Dispatch(t) = "kwd_extend"
    /\ Simple("ExtendRule")

\* parse_ruleset: the nesting guard, the root flag of the open block is
\* kept for the node, scope Rules, the block
ParseRuleset ==
  \E t \in Items :
    /\ InLoop
    /\ Under(t)
    /\ Dispatch(t) = "selector"
    /\ LET g == NestingGuard(nestings)
       IN IF g.error THEN Throw(NestingLimitMsg)
          ELSE Open("ruleset", "Rules", "body", FALSE, g.value)

ParseMediaRule ==
  \E t \in Items :
    /\ InLoop
    /\ Under(t)
    /\ Dispatch(t) = "kwd_media"
    /\ Open("media", "Media", "body", FALSE, nestings)

\* parse_at_root_block: scope AtRoot, then a root block, or a ruleset
\* that is wrapped into a block once it has been parsed
ParseAtRootBlock ==
  \E t \in Items :
    /\ InLoop
    /\ Under(t)
    /\ Dispatch(t) = "kwd_at_root"
    /\ IF t = "@at-root{"
       THEN Open("at_root", "AtRoot", "body", TRUE, nestings)
       ELSE LET g == NestingGuard(nestings)
            IN IF g.error THEN Throw(NestingLimitMsg)
               ELSE Continue(position + 1,
                      Append(block_stack, Block(position + 1, FALSE)),
                      stack \o <<"AtRoot", "Rules">>,
                      g.value,
                      frames \o
                        <<Frame("at_root", position + 1, "wait",
                                Top(block_stack).is_root, nestings),
                          Frame("ruleset", position + 1, "body",
                                Top(block_stack).is_root, nestings)>>,
                      calls)

ParseIncludeDirective ==
  \E t \in Items :
    /\ InLoop
    /\ Under(t)
    /\ Dispatch(t) = "kwd_include_directive"
    /\ IF t = "@include{"
       THEN Open("include", "", "body", FALSE, nestings)
       ELSE Simple("Mixin_Call")

ParseContentDirective ==
  \E t \in Items :
    /\ InLoop
    /\ Under(t)
    /\ Dispatch(t) = "kwd_content_directive"
    /\ Simple("Content")

ParseSupportsDirective ==
  \E t \in Items :
    /\ InLoop
    /\ Under(t)
    /\ Dispatch(t) = "kwd_supports_directive"
    /\ Open("supports", "", "body", FALSE, nestings)

\* parse_definition: scope Mixin or Function around the body
ParseDefinition ==
  \E t \in Items :
    /\ InLoop
    /\ Under(t)
    /\ \/ /\ Dispatch(t) = "kwd_mixin"
          /\ Open("mixin", "Mixin", "body", FALSE, nestings)
       \/ /\ Dispatch(t) = "kwd_function"
          /\ Open("function", "Function", "body", FALSE, nestings)

\* @charset is lexed and dropped
ParseCharsetDirective ==
  \E t \in Items :
    /\ InLoop
    /\ Under(t)
    /\ Dispatch(t) = "kwd_charset_directive"
    /\ Continue(position + 1, block_stack, stack, nestings, frames, calls)

\* an `@else` that parse_if_directive did not take
ElseWithoutIf ==
  \E t \in Items :
    /\ InLoop
    /\ Under(t)
    /\ Dispatch(t) = "else_kwd"
    /\ Throw(ElseMsg)

\* parse_directive: any other at-rule, with or without a block
ParseDirective ==
  \E t \in Items :
    /\ InLoop
    /\ Under(t)
    /\ Dispatch(t) = "at_keyword"
    /\ IF t = "@x{"
       THEN Open("directive", "", "body", FALSE, nestings)
       ELSE Simple("Directive")

\* not the code: no declaration in a root block, whatever the scope
RootBlockError_any_scope(is_root, st) ==
  IF is_root THEN ExpectedOneSelectorMsg ELSE ""

\* the branch in front of the declaration: no declaration in a root block
RootBlockError(is_root, st) ==
  IF is_root /\ Top(st) # "AtRoot" THEN ExpectedOneSelectorMsg ELSE ""

\* the last two branches: the root check, else parse_declaration; a `{`
\* after the value opens the block of nested properties
ParseDeclaration ==
  \E t \in Items \ {"}", ";"} :
    /\ InLoop
    /\ Under(t)
    /\ Dispatch(t) = "declaration"
    /\ LET e == RootBlockError(Top(block_stack).is_root, stack)
           decl == AppendTop(block_stack, Leaf("Declaration", position + 1))
       IN IF e # "" THEN Throw(e)
          ELSE IF t = "p:{"
          THEN Continue(position + 1,
                        Append(decl, Block(position + 1, FALSE)),
                        Append(stack, "Properties"), nestings,
                        Append(frames, Frame("declaration", position + 1, "body",
                                             Top(block_stack).is_root, nestings)),
                        calls)
          ELSE Continue(position + 1, decl, stack, nestings, frames, calls)

----------------------------------------------------------------------------
(* The parser *)

Next ==
  \/ Parse
  \/ ParseReturn
  \/ Semicolon
  \/ UnclosedBlock
  \/ BlockEnd
  \/ ParseIfDirective
  \/ IfBlockEnd
  \/ IfElseIf
  \/ IfElse
  \/ IfNoElse
  \/ ElseBlockEnd
  \/ ParseAssignment
  \/ ParseError
  \/ ParseDebug
  \/ ParseWarning
  \/ ParseForDirective
  \/ ParseEachDirective
  \/ ParseWhileDirective
  \/ ParseReturnDirective
  \/ ParseImport
  \/ ParseExtend
  \/ ParseRuleset
  \/ ParseMediaRule
  \/ ParseAtRootBlock
  \/ ParseIncludeDirective
  \/ ParseContentDirective
  \/ ParseSupportsDirective
  \/ ParseDefinition
  \/ ParseCharsetDirective
  \/ ElseWithoutIf
  \/ ParseDirective
  \/ ParseDeclaration

Spec == Init /\ [][Next]_vars

----------------------------------------------------------------------------
(* read_bom, byte by byte *)

utf_8_bom == <<239, 187, 191>>
utf_16_bom_be == <<254, 255>>
utf_16_bom_le == <<255, 254>>
utf_32_bom_be == <<0, 0, 254, 255>>
utf_32_bom_le == <<255, 254, 0, 0>>
utf_7_bom_1 == <<43, 47, 118, 56>>
utf_7_bom_2 == <<43, 47, 118, 57>>
utf_7_bom_3 == <<43, 47, 118, 43>>
utf_7_bom_4 == <<43, 47, 118, 47>>
utf_7_bom_5 == <<43, 47, 118, 56, 45>>
utf_1_bom == <<247, 100, 76>>
utf_ebcdic_bom == <<221, 115, 102, 115>>
scsu_bom == <<14, 254, 255>>
bocu_1_bom == <<251, 238, 40>>
gb_18030_bom == <<132, 49, 149, 51>>

UnsupportedMsg == "only UTF-8 documents are currently supported; your document appears to be "

RECURSIVE BitOr(_, _)
\* a | b on unsigned numbers
BitOr(a, b) ==
  IF a = 0 THEN b
  ELSE IF b = 0 THEN a
  ELSE (IF a % 2 = 1 \/ b % 2 = 1 THEN 1 ELSE 0) + 2 * BitOr(a \div 2, b \div 2)

\* not the code: only the first byte compared
check_bom_chars_first_byte(src, end_of_buffer, b, len) ==
  IF len > end_of_buffer THEN 0
  ELSE IF src[1] = b[1] THEN len ELSE 0

\* check_bom_chars: len when the buffer holds len bytes and they are the
\* BOM's, else 0
check_bom_chars(src, end_of_buffer, b, len) ==
  IF len > end_of_buffer THEN 0
  ELSE IF \A i \in 1..len : src[i] = b[i] THEN len ELSE 0

\* source[0]: the first byte, the terminating NUL for an empty buffer
FirstByte(src) == IF src = <<>> THEN 0 ELSE src[1]

\* read_bom: the switch on the first byte
read_bom(src) ==
  LET e == Len(src)
      c == FirstByte(src)
      le == check_bom_chars(src, e, utf_16_bom_le, 2)
      le32 == le + (IF le # 0 THEN check_bom_chars(src, e, utf_32_bom_le, 4) ELSE 0)
  IN CASE c = 239 -> [skip |-> check_bom_chars(src, e, utf_8_bom, 3),
                      encoding |-> "UTF-8", utf_8 |-> TRUE]
       [] c = 254 -> [skip |-> check_bom_chars(src, e, utf_16_bom_be, 2),
                      encoding |-> "UTF-16 (big endian)", utf_8 |-> FALSE]
       [] c = 255 -> [skip |-> le32,
                      encoding |-> IF le32 = 2 THEN "UTF-16 (little endian)"
                                   ELSE "UTF-32 (little endian)",
                      utf_8 |-> FALSE]
       [] c = 0 -> [skip |-> check_bom_chars(src, e, utf_32_bom_be, 4),
                    encoding |-> "UTF-32 (big endian)", utf_8 |-> FALSE]
       [] c = 43 -> [skip |-> BitOr(check_bom_chars(src, e, utf_7_bom_1, 4),
                             BitOr(check_bom_chars(src, e, utf_7_bom_2, 4),
                             BitOr(check_bom_chars(src, e, utf_7_bom_3, 4),
                             BitOr(check_bom_chars(src, e, utf_7_bom_4, 4),
                                   check_bom_chars(src, e, utf_7_bom_5, 5))))),
                     encoding |-> "UTF-7", utf_8 |-> FALSE]
       [] c = 247 -> [skip |-> check_bom_chars(src, e, utf_1_bom, 3),
                      encoding |-> "UTF-1", utf_8 |-> FALSE]
       [] c = 221 -> [skip |-> check_bom_chars(src, e, utf_ebcdic_bom, 4),
                      encoding |-> "UTF-EBCDIC", utf_8 |-> FALSE]
       [] c = 14 -> [skip |-> check_bom_chars(src, e, scsu_bom, 3),
                     encoding |-> "SCSU", utf_8 |-> FALSE]
       [] c = 251 -> [skip |-> check_bom_chars(src, e, bocu_1_bom, 3),
                      encoding |-> "BOCU-1", utf_8 |-> FALSE]
       [] c = 132 -> [skip |-> check_bom_chars(src, e, gb_18030_bom, 4),
                      encoding |-> "GB-18030", utf_8 |-> FALSE]
       [] OTHER -> [skip |-> 0, encoding |-> "", utf_8 |-> FALSE]

\* read_bom: the error for a BOM that is not UTF-8, else the cursor moves
ReadBom ==
  /\ bom.status = "init"
  /\ LET r == read_bom(bom.source)
     IN bom' = IF r.skip > 0 /\ ~r.utf_8
               THEN [bom EXCEPT !.status = "error",
                                !.error_msg = <<UnsupportedMsg, r.encoding>>]
               ELSE [bom EXCEPT !.status = "done",
                                !.position = bom.position + r.skip]
  /\ UNCHANGED <<pvars, imp, sub>>

\* longest run of bytes after the (partial) BOM
MaxTail == 2
TailBytes == {0, 45, 97}

Boms == {utf_8_bom, utf_16_bom_be, utf_16_bom_le, utf_32_bom_be, utf_32_bom_le,
         utf_7_bom_1, utf_7_bom_2, utf_7_bom_3, utf_7_bom_4, utf_7_bom_5,
         utf_1_bom, utf_ebcdic_bom, scsu_bom, bocu_1_bom, gb_18030_bom}

Tails == UNION {[1..n -> TailBytes] : n \in 0..MaxTail}

\* the buffers read_bom is run on: a BOM or the start of one, then text
BomBuffers ==
  UNION {{SubSeq(b, 1, k) \o t : k \in 0..Len(b), t \in Tails} : b \in Boms}

InitBom ==
  /\ InitParser
  /\ vocab = [items |-> {}, len |-> 0]
  /\ imp = IdleImp
  /\ sub = IdleSub
  /\ bom \in {[source |-> s, position |-> 0, status |-> "init", error_msg |-> <<>>] :
              s \in BomBuffers}

NextBom == ReadBom

SpecBom == InitBom /\ [][NextBom]_vars

----------------------------------------------------------------------------
(* parse_import, entry by entry *)

\* most entries of one @import statement
MaxEntries == 3

EntryLists == UNION {[1..n -> {"quoted", "url", "none"}] : n \in 0..MaxEntries}

InitImport ==
  /\ InitParser
  /\ vocab = [items |-> {}, len |-> 0]
  /\ bom = IdleBom
  /\ sub = IdleSub
  /\ imp \in {ImportStart(es) : es \in EntryLists}

\* one entry of the list is lexed
ImportLex ==
  /\ imp.phase = "lex"
  /\ imp' = LexEntry(imp)
  /\ UNCHANGED <<pvars, bom, sub>>

\* one location is resolved: kept as a url, or handed to the importers
\* and, if they do not take it, to import_url
ImportResolve ==
  /\ imp.phase = "resolve"
  /\ \E o \in Outcomes : imp' = ResolveLocation(imp, o)
  /\ UNCHANGED <<pvars, bom, sub>>

\* parse_block_node appends the Import and the Import_Stub nodes
ImportAppend ==
  /\ imp.phase = "done"
  /\ imp' = [imp EXCEPT !.phase = "appended", !.appended = ImportNodes(imp, 1)]
  /\ UNCHANGED <<pvars, bom, sub>>

NextImport == ImportLex \/ ImportResolve \/ ImportAppend

SpecImport == InitImport /\ [][NextImport]_vars

----------------------------------------------------------------------------
(* Properties *)

\* this step of parse_block_node looks at item t
Dispatching(t) ==
  /\ InLoop
  /\ position < Len(source')
  /\ source'[position + 1] = t

\* the last statement of the innermost open block
LastStmt(bs) == Top(Top(bs).stmts)

RECURSIVE NodesOfBlock(_)
\* every node below a block, at any depth
NodesOfBlock(b) ==
  UNION {{b.stmts[i]}
         \cup UNION {NodesOfBlock(b.stmts[i].block[k]) : k \in DOMAIN b.stmts[i].block}
         \cup UNION {NodesOfBlock(b.stmts[i].alternative[k]) :
                     k \in DOMAIN b.stmts[i].alternative}
         : i \in DOMAIN b.stmts}

\* every node built so far
AllNodes ==
  UNION ({NodesOfBlock(block_stack[i]) : i \in DOMAIN block_stack}
         \cup {NodesOfBlock(root[i]) : i \in DOMAIN root}
         \cup UNION {{NodesOfBlock(frames[i].kept[k]) : k \in DOMAIN frames[i].kept} :
                     i \in DOMAIN frames})

RECURSIVE ScanClose(_, _, _)
\* the index of the `}` that brings the depth back to 0, scanning src
\* from index i; 0 when there is none
ScanClose(src, i, depth) ==
  IF i > Len(src) THEN 0
  ELSE IF src[i] = "}"
       THEN IF depth = 1 THEN i ELSE ScanClose(src, i + 1, depth - 1)
       ELSE IF src[i] \in Openers \cup {"@else{", "@else if{"}
            THEN ScanClose(src, i + 1, depth + 1)
            ELSE ScanClose(src, i + 1, depth)

\* the index of the `}` that closes the block opened by the item at p
MatchClose(src, p) == ScanClose(src, p + 1, 1)

\* C1: an @import of a quoted path directly in the body of an @function
\* is rejected with the import nesting error; the importer is not
\* invoked and nothing is appended.
C1_ImportInFunctionRejected ==
  [][(Dispatching("@import'q'") /\ Top(stack) = "Function")
     => /\ status' = "error"
        /\ error_msg' = ImportNestingMsg
        /\ calls' = calls
        /\ block_stack' = block_stack]_vars

\* C2: a quoted-path @import is rejected when the innermost scope is
\* Control or Mixin, whatever the outer scopes, and accepted when the
\* innermost scope is Root, Rules or Media.
C2_ImportByInnermostScope ==
  [][Dispatching("@import'q'")
     => /\ Top(stack) \in {"Control", "Mixin"}
           => /\ status' = "error"
              /\ error_msg' = ImportNestingMsg
              /\ block_stack' = block_stack
              /\ calls' = calls
        /\ Top(stack) \in {"Root", "Rules", "Media"}
           => /\ status' = "running"
              /\ position' = position + 1
              /\ calls' # calls
              /\ LastStmt(block_stack').type = "Import_Stub"
              /\ LastStmt(block_stack').pstate = position + 1]_vars

\* an @import refused in a control directive that is itself in a ruleset
C2_Witness ==
  /\ status = "error"
  /\ error_msg = ImportNestingMsg
  /\ Top(stack) = "Control"
  /\ "Rules" \in Range(stack)
  /\ source[position + 1] = "@import'q'"

\* C3: an @else (or @else if) met by the statement dispatcher, that is
\* one no @if directive has consumed, is the error "@else must come
\* after @if"; it never becomes a Directive node.
C3_StrayElseIsError ==
  [][(Dispatching("@else{") \/ Dispatching("@else if{"))
     => /\ status' = "error"
        /\ error_msg' = ElseMsg
        /\ position' = position
        /\ block_stack' = block_stack]_vars

\* an @else that follows a statement other than an @if
C3_Witness ==
  /\ status = "error"
  /\ error_msg = ElseMsg
  /\ source[position + 1] = "@else{"
  /\ position > 0
  /\ \A i \in DOMAIN Top(block_stack).stmts : Top(block_stack).stmts[i].type # "If"

\* C4: in every If node, what follows the `}` of its block decides the
\* alternative: `@else if` gives a non-root Block holding exactly one
\* statement, the If of that `@else if`; `@else` gives the block of the
\* `@else`, and a further `@else` after that block is not attached but
\* an error; anything else gives no alternative.  Applied at every
\* level, this is the chain if / else-if / ... / else.
C4_IfChainShape ==
  \A n \in AllNodes :
    n.type = "If" =>
      LET c == MatchClose(source, n.pstate)
          nxt == IF c < Len(source) THEN source[c + 1] ELSE ""
      IN /\ c > 0
         /\ Len(n.block) = 1
         /\ n.block[1].pstate = n.pstate
         /\ nxt = "@else if{"
            => /\ Len(n.alternative) = 1
               /\ ~n.alternative[1].is_root
               /\ Len(n.alternative[1].stmts) = 1
               /\ n.alternative[1].stmts[1].type = "If"
               /\ n.alternative[1].stmts[1].pstate = c + 1
         /\ nxt = "@else{"
            => /\ Len(n.alternative) = 1
               /\ n.alternative[1].pstate = c + 1
               /\ LET c2 == MatchClose(source, c + 1)
                  IN /\ c2 > 0
                     /\ (c2 < Len(source) /\ source[c2 + 1] \in {"@else{", "@else if{"})
                        => /\ status = "error"
                           /\ error_msg = ElseMsg
                           /\ position = c2
         /\ nxt \notin {"@else if{", "@else{"} => n.alternative = <<>>

\* a finished chain @if / @else if / @else
C4_Witness ==
  \E n \in AllNodes :
    /\ n.type = "If"
    /\ source[n.pstate] = "@if{"
    /\ n.alternative # <<>>
    /\ n.alternative[1].stmts # <<>>
    /\ n.alternative[1].stmts[1].type = "If"
    /\ source[n.alternative[1].stmts[1].pstate] = "@else if{"
    /\ n.alternative[1].stmts[1].alternative # <<>>
    /\ source[n.alternative[1].stmts[1].alternative[1].pstate] = "@else{"

\* C5: a call of content-exists() or content_exists() with no mixin
\* definition around it is the error "Cannot call content-exists()
\* except within a mixin."
C5_ContentExistsOutsideMixin ==
  [][\A t \in {"$v:ce", "$v:c_e", "@if ce{"} :
       (Dispatching(t) /\ "Mixin" \notin Range(stack))
       => /\ status' = "error"
          /\ error_msg' = ContentExistsMsg]_vars

\* content_exists() refused in a ruleset outside any mixin
C5_Witness ==
  /\ status = "error"
  /\ error_msg = ContentExistsMsg
  /\ source[position + 1] = "$v:c_e"
  /\ Top(stack) = "Rules"
  /\ "Mixin" \notin Range(stack)

\* C6: @warn, @error and @debug are rejected with the illegal nesting
\* error when the innermost scope is Properties, and accepted when it is
\* Root, Rules, Mixin, Function or Control.
C6_MessageDirectivesByScope ==
  [][\A t \in {"@warn", "@error", "@debug"} :
       Dispatching(t)
       => /\ Top(stack) = "Properties"
             => /\ status' = "error"
                /\ error_msg' = IllegalNestingMsg
                /\ block_stack' = block_stack
          /\ Top(stack) \in {"Root", "Rules", "Mixin", "Function", "Control"}
             => /\ status' = "running"
                /\ position' = position + 1
                /\ LastStmt(block_stack').pstate = position + 1
                /\ LastStmt(block_stack').type =
                     (CASE t = "@warn" -> "Warning"
                        [] t = "@error" -> "Error"
                        [] t = "@debug" -> "Debug")]_vars

\* an @warn refused below a nested property
C6_Witness ==
  /\ status = "error"
  /\ error_msg = IllegalNestingMsg
  /\ Top(stack) = "Properties"
  /\ source[position + 1] = "@warn"

\* the blocks the parser is inside of: one parse_css_block, and the
\* handler that called it, for every `{` not yet closed
OpenBraces == Cardinality({i \in DOMAIN frames : frames[i].phase # "wait"})

\* C7: every recursive cycle of the parser that goes through a `{`
\* increments the nesting counter, so the depth of the recursion never
\* passes the guard's ceiling.
C7_RecursionBoundedByGuard == OpenBraces <= MAX_NESTING

\* C8: parse() returns the root block only when the cursor is at the end
\* of the buffer; with input left (an unmatched `}`) it is the error
\* "expected selector or at-rule".
C8_RootOnlyAtEnd ==
  /\ [](status = "done"
        => /\ ended
           /\ position = Len(source)
           /\ root # <<>>
           /\ root[1].is_root)
  /\ [](root # <<>> => status = "done")
  /\ [][(frames = <<>> /\ Dispatching("}"))
        => /\ status' = "error"
           /\ error_msg' = ExpectedSelectorMsg
           /\ root' = <<>>]_vars

\* an unmatched `}` after some statements
C8_Witness ==
  /\ status = "error"
  /\ error_msg = ExpectedSelectorMsg
  /\ frames = <<>>
  /\ position > 0
  /\ position < Len(source)
  /\ source[position + 1] = "}"
  /\ root = <<>>

\* the buffer starts with the bytes b
StartsWith(src, b) == Len(src) >= Len(b) /\ SubSeq(src, 1, Len(b)) = b

\* the BOMs of the encodings that are not UTF-8, with their names
ForeignBoms ==
  {[bytes |-> utf_16_bom_be, name |-> "UTF-16 (big endian)"],
   [bytes |-> utf_16_bom_le, name |-> "UTF-16 (little endian)"],
   [bytes |-> utf_32_bom_be, name |-> "UTF-32 (big endian)"],
   [bytes |-> utf_32_bom_le, name |-> "UTF-32 (little endian)"],
   [bytes |-> utf_7_bom_1, name |-> "UTF-7"],
   [bytes |-> utf_7_bom_2, name |-> "UTF-7"],
   [bytes |-> utf_7_bom_3, name |-> "UTF-7"],
   [bytes |-> utf_7_bom_4, name |-> "UTF-7"],
   [bytes |-> utf_7_bom_5, name |-> "UTF-7"],
   [bytes |-> utf_1_bom, name |-> "UTF-1"],
   [bytes |-> utf_ebcdic_bom, name |-> "UTF-EBCDIC"],
   [bytes |-> scsu_bom, name |-> "SCSU"],
   [bytes |-> bocu_1_bom, name |-> "BOCU-1"],
   [bytes |-> gb_18030_bom, name |-> "GB-18030"]}

\* C9: read_bom skips a complete UTF-8 BOM (3 bytes); a complete BOM of
\* another encoding is the error naming that encoding (the longest BOM
\* the buffer starts with); a buffer that starts with no complete BOM,
\* a truncated one included, is read from byte 0.
C9_ReadBom ==
  bom.status \in {"done", "error"} =>
    LET src == bom.source
        hits == {x \in ForeignBoms : StartsWith(src, x.bytes)}
    IN IF StartsWith(src, utf_8_bom)
       THEN bom.status = "done" /\ bom.position = 3
       ELSE IF hits # {}
            THEN /\ bom.status = "error"
                 /\ bom.position = 0
                 /\ bom.error_msg[1] = UnsupportedMsg
                 /\ \E x \in hits :
                      /\ \A y \in hits : Len(y.bytes) <= Len(x.bytes)
                      /\ bom.error_msg[2] = x.name
            ELSE bom.status = "done" /\ bom.position = 0

\* FF FE 00 00 is named UTF-32, not UTF-16
C9_Witness ==
  /\ bom.status = "error"
  /\ StartsWith(bom.source, utf_32_bom_le)
  /\ bom.error_msg[2] = "UTF-32 (little endian)"

\* the entries of the list that are quoted paths, in order
QuotedEntries(es) ==
  LET F[i \in 0..Len(es)] ==
        IF i = 0 THEN <<>>
        ELSE IF es[i] = "quoted" THEN Append(F[i - 1], i) ELSE F[i - 1]
  IN F[Len(es)]

\* the calls the answers ask for: the importers for each path and, when
\* they did not take it, the resolver right after
ExpectedCalls(answers) ==
  LET F[i \in 0..Len(answers)] ==
        IF i = 0 THEN <<>>
        ELSE F[i - 1] \o <<<<"importer", answers[i].path>>>>
                      \o (IF answers[i].handled THEN <<>>
                          ELSE <<<<"resolver", answers[i].path>>>>)
  IN F[Len(answers)]

\* the includes the answers produce, in order
ExpectedIncs(answers) ==
  LET F[i \in 0..Len(answers)] ==
        IF i = 0 THEN <<>>
        ELSE F[i - 1] \o NewIncs(answers[i].path, answers[i].n)
  IN F[Len(answers)]

----------------------------------------------------------------------------
(* @supports conditions: parse_supports_condition and its helpers, on a   *)
(* buffer of tokens.  "decl" is the text of a declaration `feature: value`, *)
(* "interp" an interpolation #{...}.                                        *)

SupTokens == {"(", ")", "and", "or", "not", "decl", "interp"}

\* a condition node; left and right hold zero or one node
SupNode(kind, op, left, right) ==
  [kind |-> kind, op |-> op, left |-> left, right |-> right]

\* the result of a sub-parser: an error, or a node (none: the null
\* object) and the cursor after it
SupOk(node, pos) == [err |-> "", node |-> node, pos |-> pos]
SupErr(msg) == [err |-> msg, node |-> <<>>, pos |-> 0]

SupExpectedConditionMsg ==
  "Invalid CSS after : expected @supports condition (e.g. (display: flexbox)), was "
SupUnclosedMsg == "unclosed parenthesis in @supports declaration"
SupDeclarationMsg == "@supports condition expected declaration"
ExpectedLBraceMsg == "Invalid CSS after : expected \"{\", was "

\* the token under the cursor, "" at the end of the condition
SupAt(toks, pos) == IF pos <= Len(toks) THEN toks[pos] ELSE ""

\* parse_supports_declaration
parse_supports_declaration(toks, pos) ==
  IF SupAt(toks, pos) = "decl"
  THEN SupOk(<<SupNode("Declaration", "", <<>>, <<>>)>>, pos + 1)
  ELSE SupErr(SupDeclarationMsg)

\* parse_supports_operator, one round of the loop after the right operand:
\* cond = Supports_Operator(cond, right, op), whatever op the rounds before had
SupOperatorStep(cond, op, right) == SupNode("Operator", op, <<cond>>, <<right>>)

RECURSIVE parse_supports_condition(_, _, _)
RECURSIVE parse_supports_condition_in_parens(_, _, _)
RECURSIVE SupOperatorLoop(_, _, _)

\* parse_supports_condition_in_parens
parse_supports_condition_in_parens(toks, pos, parens_required) ==
  IF SupAt(toks, pos) = "interp"
  THEN SupOk(<<SupNode("Interpolation", "", <<>>, <<>>)>>, pos + 1)
  ELSE IF SupAt(toks, pos) # "("
  THEN IF parens_required THEN SupErr(SupExpectedConditionMsg)
       ELSE SupOk(<<>>, pos)
  ELSE LET c == parse_supports_condition(toks, pos + 1, FALSE)
           d == IF c.err = "" /\ c.node = <<>>
                THEN parse_supports_declaration(toks, pos + 1)
                ELSE c
       IN IF d.err # "" THEN d
          ELSE IF SupAt(toks, d.pos) # ")" THEN SupErr(SupUnclosedMsg)
          ELSE SupOk(d.node, d.pos + 1)

\* parse_supports_operator: the while loop, cond being the condition so far
SupOperatorLoop(toks, pos, cond) ==
  IF SupAt(toks, pos) \notin {"and", "or"}
  THEN SupOk(<<cond>>, pos)
  ELSE LET op == IF SupAt(toks, pos) = "and" THEN "AND" ELSE "OR"
           right == parse_supports_condition_in_parens(toks, pos + 1, TRUE)
       IN IF right.err # "" THEN right
          ELSE SupOperatorLoop(toks, right.pos,
                               SupOperatorStep(cond, op, right.node[1]))

\* parse_supports_operator
parse_supports_operator(toks, pos, top_level) ==
  LET c == parse_supports_condition_in_parens(toks, pos, top_level)
  IN IF c.err # "" \/ c.node = <<>> THEN c
     ELSE SupOperatorLoop(toks, c.pos, c.node[1])

\* parse_supports_negation (entered when `not` is under the cursor)
parse_supports_negation(toks, pos) ==
  LET c == parse_supports_condition_in_parens(toks, pos + 1, TRUE)
  IN IF c.err # "" THEN c
     ELSE SupOk(<<SupNode("Negation", "", c.node, <<>>)>>, c.pos)

\* parse_supports_condition: negation, else operator; the interpolation
\* tried last has already been tried by parse_supports_condition_in_parens
parse_supports_condition(toks, pos, top_level) ==
  IF SupAt(toks, pos) = "not"
  THEN parse_supports_negation(toks, pos)
  ELSE parse_supports_operator(toks, pos, top_level)

\* parse_supports_directive: the condition, then the block must follow
parse_supports_directive(toks) ==
  LET c == parse_supports_condition(toks, 1, TRUE)
  IN IF c.err # "" THEN c
     ELSE IF c.pos # Len(toks) + 1 THEN SupErr(ExpectedLBraceMsg)
     ELSE c

\* longest condition, in tokens, of the exhaustive part of the inputs
MaxSupTokens == 4
\* most operands of a flat condition
MaxOperands == 3

SupOperands == {<<"(", "decl", ")">>, <<"interp">>}

RECURSIVE SupFlat(_, _)
\* the condition with the given operands and the operators between them
SupFlat(operands, ops) ==
  IF Len(operands) = 1 THEN operands[1]
  ELSE SupFlat(SubSeq(operands, 1, Len(operands) - 1), SubSeq(ops, 1, Len(ops) - 1))
       \o <<ops[Len(ops)]>> \o operands[Len(operands)]

SupInputs ==
  UNION {[1..n -> SupTokens] : n \in 0..MaxSupTokens}
  \cup UNION {{SupFlat(os, ops) : os \in [1..n -> SupOperands],
                                 ops \in [1..(n - 1) -> {"and", "or"}]}
              : n \in 1..MaxOperands}

InitSupports ==
  /\ InitParser
  /\ vocab = [items |-> {}, len |-> 0]
  /\ bom = IdleBom
  /\ imp = IdleImp
  /\ sub \in {[fn |-> "supports", input |-> i, status |-> "init",
               error_msg |-> "", node |-> <<>>] : i \in SupInputs}

\* the condition of one @supports directive is parsed
ParseSupportsCondition ==
  /\ sub.fn = "supports"
  /\ sub.status = "init"
  /\ LET r == parse_supports_directive(sub.input)
     IN sub' = [sub EXCEPT !.status = IF r.err = "" THEN "done" ELSE "error",
                           !.error_msg = r.err,
                           !.node = r.node]
  /\ UNCHANGED <<pvars, bom, imp>>

NextSupports == ParseSupportsCondition

SpecSupports == InitSupports /\ [][NextSupports]_vars

\* the operands and the operators of a flat condition, <<>> for a buffer
\* that is not one
SupSplit(toks) ==
  LET F[i \in 0..Len(toks)] ==
        IF i = 0 THEN [ok |-> TRUE, ops |-> <<>>, n |-> 0, want |-> "operand"]
        ELSE LET q == F[i - 1]
                 t == toks[i]
             IN IF ~q.ok THEN q
                ELSE IF q.want = "operand" /\ t = "interp"
                THEN [q EXCEPT !.n = @ + 1, !.want = "op"]
                ELSE IF q.want = "operand" /\ t = "("
                THEN [q EXCEPT !.want = "decl"]
                ELSE IF q.want = "decl" /\ t = "decl"
                THEN [q EXCEPT !.want = ")"]
                ELSE IF q.want = ")" /\ t = ")"
                THEN [q EXCEPT !.n = @ + 1, !.want = "op"]
                ELSE IF q.want = "op" /\ t \in {"and", "or"}
                THEN [q EXCEPT !.ops = Append(@, IF t = "and" THEN "AND" ELSE "OR"),
                               !.want = "operand"]
                ELSE [q EXCEPT !.ok = FALSE]
  IN F[Len(toks)]

\* the buffer is operand (op operand)*, every operand an interpolation
\* or a declaration in parentheses
SupIsFlat(toks) == SupSplit(toks).ok /\ SupSplit(toks).want = "op"

RECURSIVE SupLeftFolded(_)
\* no right operand of the spine is itself an operator
SupLeftFolded(c) ==
  IF c.kind # "Operator" THEN TRUE
  ELSE c.right[1].kind # "Operator" /\ SupLeftFolded(c.left[1])

RECURSIVE SupSpineOps(_)
\* the operators along the left spine, innermost first
SupSpineOps(c) ==
  IF c.kind # "Operator" THEN <<>> ELSE Append(SupSpineOps(c.left[1]), c.op)

\* C11: `and` and `or` mixed at one level without parentheses are
\* rejected; a run of only `and` or only `or` is accepted and folded to
\* the left (every right operand a single operand, the operators along
\* the left spine those of the source).
C11_SupportsNoMixedOperators ==
  (sub.fn = "supports" /\ sub.status # "init" /\ SupIsFlat(sub.input)) =>
    LET ops == SupSplit(sub.input).ops
        mixed == \E i, j \in DOMAIN ops : ops[i] # ops[j]
    IN IF mixed THEN sub.status = "error"
       ELSE /\ sub.status = "done"
            /\ SupSpineOps(sub.node[1]) = ops
            /\ SupLeftFolded(sub.node[1])

----------------------------------------------------------------------------
(* Lists, maps and bracketed lists: parse_list .. parse_factor on a buffer  *)
(* of tokens.  "n" is a number literal; the buffers hold no operators, so   *)
(* parse_disjunction .. parse_operators hand through what parse_factor      *)
(* returns.  The buffers are far shallower than the nesting guard's         *)
(* ceiling, which is left out here.                                         *)

ExprTokens == {"n", ",", ":", "(", ")", "[", "]"}

\* an expression node: a Number, or a List (a map is a List separated by
\* HASH) with its elements
ExprNode(kind, sep, bracketed, delayed, items) ==
  [kind |-> kind, sep |-> sep, bracketed |-> bracketed, delayed |-> delayed,
   items |-> items]

\* SASS_MEMORY_NEW(List, pstate, size, sep, false, bracketed)
NewList(sep, bracketed) == ExprNode("List", sep, bracketed, FALSE, <<>>)

\* lexed_number: a Number, delayed
lexed_number == ExprNode("Number", "", FALSE, TRUE, <<>>)

\* list->append(e)
ListAppend(list, e) == [list EXCEPT !.items = Append(@, e)]

\* set_delayed: not passed on to the children of a list
set_delayed(e, d) == [e EXCEPT !.delayed = d]

ExprOk(node, pos) == [err |-> "", node |-> node, pos |-> pos]
ExprErr(msg) == [err |-> msg, node |-> lexed_number, pos |-> 0]

ExpectedExpressionMsg == "Invalid CSS after : expected expression (e.g. 1px, bold), was "
ExpectedRParenMsg == "Invalid CSS after : expected \")\", was "
ExpectedColonMsg == "Invalid CSS after : expected \":\", was "
UnclosedParenMsg == "unclosed parenthesis"
UnclosedBracketMsg == "unclosed squared bracket"

\* the token under the cursor, "" at the end of the buffer
ExprAt(toks, pos) == IF pos <= Len(toks) THEN toks[pos] ELSE ""

\* Prelexer::list_terminator
list_terminator(toks, pos) == ExprAt(toks, pos) \in {")", "]", ":", ""}

\* Prelexer::space_list_terminator
space_list_terminator(toks, pos) ==
  ExprAt(toks, pos) = "," \/ list_terminator(toks, pos)

RECURSIVE parse_factor(_, _)
RECURSIVE parse_space_list(_, _)
RECURSIVE SpaceListLoop(_, _, _)
RECURSIVE CommaListLoop(_, _, _)
RECURSIVE parse_comma_list(_, _, _)
RECURSIVE parse_bracket_list(_, _)
RECURSIVE MapLoop(_, _, _)
RECURSIVE MapValue(_, _, _, _)
RECURSIVE parse_map(_, _)

\* parse_disjunction: with no operator in the buffer, what parse_factor
\* returns
parse_disjunction(toks, pos) == parse_factor(toks, pos)

\* the value of an expression is computed once and named: With({body : x \in {e}})
With(S) == CHOOSE v \in S : TRUE

\* parse_space_list: the while loop
SpaceListLoop(toks, pos, list) ==
  IF space_list_terminator(toks, pos) THEN ExprOk(list, pos)
  ELSE With({IF d.err # "" THEN d
             ELSE SpaceListLoop(toks, d.pos, ListAppend(list, d.node))
               : d \in {parse_disjunction(toks, pos)}})

\* not the code: the single element wrapped in a space list
parse_space_list_wrapping(toks, pos) ==
  With({IF disj1.err # "" THEN disj1
        ELSE SpaceListLoop(toks, disj1.pos,
                           ListAppend(NewList("SPACE", FALSE), disj1.node))
          : disj1 \in {parse_disjunction(toks, pos)}})

\* parse_space_list
parse_space_list(toks, pos) ==
  With({IF disj1.err # "" THEN disj1
        ELSE IF space_list_terminator(toks, disj1.pos) THEN disj1
        ELSE SpaceListLoop(toks, disj1.pos,
                           ListAppend(NewList("SPACE", FALSE), disj1.node))
          : disj1 \in {parse_disjunction(toks, pos)}})

\* parse_comma_list / parse_bracket_list: the while loop over the commas
CommaListLoop(toks, pos, list) ==
  IF ExprAt(toks, pos) # "," THEN ExprOk(list, pos)
  ELSE IF list_terminator(toks, pos + 1) THEN ExprOk(list, pos + 1)
  ELSE With({IF e.err # "" THEN e
             ELSE CommaListLoop(toks, e.pos, ListAppend(list, e.node))
               : e \in {parse_space_list(toks, pos + 1)}})

\* parse_comma_list
parse_comma_list(toks, pos, delayed) ==
  IF list_terminator(toks, pos) THEN ExprOk(NewList("SPACE", FALSE), pos)
  ELSE With({IF list.err # "" THEN list
             ELSE IF ExprAt(toks, list.pos) # ","
             THEN ExprOk(IF ~delayed THEN set_delayed(list.node, FALSE)
                                     ELSE list.node,
                         list.pos)
             ELSE CommaListLoop(toks, list.pos,
                                ListAppend(NewList("COMMA", FALSE), list.node))
               : list \in {parse_space_list(toks, pos)}})

\* parse_list
parse_list(toks, pos, delayed) == parse_comma_list(toks, pos, delayed)

\* not the code: a single element returned as it is
BracketSingle_unwrapped(list, has_paren) ==
  IF list.kind = "List" THEN [list EXCEPT !.bracketed = TRUE] ELSE list

\* parse_bracket_list: no comma follows the first item
BracketSingle(list, has_paren) ==
  IF list.kind # "List" \/ list.bracketed \/ has_paren
  THEN ListAppend(NewList("SPACE", TRUE), list)
  ELSE [list EXCEPT !.bracketed = TRUE]

\* parse_bracket_list
parse_bracket_list(toks, pos) ==
  IF list_terminator(toks, pos) THEN ExprOk(NewList("SPACE", TRUE), pos)
  ELSE With({IF list.err # "" THEN list
             ELSE IF ExprAt(toks, list.pos) # ","
             THEN ExprOk(BracketSingle(list.node, ExprAt(toks, pos) = "("),
                         list.pos)
             ELSE CommaListLoop(toks, list.pos,
                                ListAppend(NewList("COMMA", TRUE), list.node))
               : list \in {parse_space_list(toks, pos)}})

\* not the code: any key may open a map
MapKeyError_none(key) == ""

\* parse_map: the first key must not be a comma list
MapKeyError(key) ==
  IF key.kind = "List" /\ key.sep = "COMMA" THEN ExpectedRParenMsg ELSE ""

\* parse_map: the value behind the `:` of a key, then the rest of the pairs
MapValue(toks, pos, map, key) ==
  With({IF value.err # "" THEN value
        ELSE MapLoop(toks, value.pos,
                     ListAppend(ListAppend(map, key), value.node))
          : value \in {parse_space_list(toks, pos)}})

\* parse_map: the while loop over the pairs after the first
MapLoop(toks, pos, map) ==
  IF ExprAt(toks, pos) # "," THEN ExprOk(map, pos)
  ELSE IF ExprAt(toks, pos + 1) = ")" THEN ExprOk(map, pos + 1)
  ELSE With({IF key.err # "" THEN key
             ELSE IF ExprAt(toks, key.pos) # ":" THEN ExprErr(ExpectedColonMsg)
             ELSE MapValue(toks, key.pos + 1, map, key.node)
               : key \in {parse_space_list(toks, pos + 1)}})

\* parse_map
parse_map(toks, pos) ==
  With({IF key.err # "" THEN key
        ELSE IF ExprAt(toks, key.pos) # ":" THEN key
        ELSE IF MapKeyError(key.node) # "" THEN ExprErr(MapKeyError(key.node))
        ELSE MapValue(toks, key.pos + 1, NewList("HASH", FALSE), key.node)
          : key \in {parse_list(toks, pos, FALSE)}})

\* parse_factor: `(` map `)`, `[` list `]`, else parse_value
parse_factor(toks, pos) ==
  CASE ExprAt(toks, pos) = "(" ->
         With({IF value.err # "" THEN value
               ELSE IF ExprAt(toks, value.pos) # ")"
               THEN ExprErr(UnclosedParenMsg)
               ELSE ExprOk(value.node, value.pos + 1)
                 : value \in {parse_map(toks, pos + 1)}})
    [] ExprAt(toks, pos) = "[" ->
         With({IF value.err # "" THEN value
               ELSE IF ExprAt(toks, value.pos) # "]"
               THEN ExprErr(UnclosedBracketMsg)
               ELSE ExprOk(value.node, value.pos + 1)
                 : value \in {parse_bracket_list(toks, pos + 1)}})
    [] ExprAt(toks, pos) = "n" -> ExprOk(lexed_number, pos + 1)
    [] OTHER -> ExprErr(ExpectedExpressionMsg)

\* longest buffer, in tokens, of the exhaustive part of the inputs
MaxExprTokens == 4
\* most pairs of a map among the inputs
MaxPairs == 2

\* keys and values of the maps among the inputs
ExprOperands ==
  {<<"n">>, <<"n", "n">>, <<"(", "n", ",", "n", ")">>, <<"[", "n", "]">>}

\* one comma-separated part of a map: key : value, or a key alone
MapSegments ==
  {k \o <<":">> \o v : k \in ExprOperands, v \in ExprOperands} \cup ExprOperands

RECURSIVE JoinSegments(_)
JoinSegments(segs) ==
  IF Len(segs) = 1 THEN segs[1]
  ELSE JoinSegments(SubSeq(segs, 1, Len(segs) - 1)) \o <<",">> \o segs[Len(segs)]

\* what follows a `(`: the parts, perhaps a trailing comma, the `)`
MapInputs ==
  UNION {{JoinSegments(segs) \o tail : segs \in [1..k -> MapSegments],
                                       tail \in {<<")">>, <<",", ")">>}}
         : k \in 1..MaxPairs}

ExprInputs ==
  UNION {[1..n -> ExprTokens] : n \in 0..MaxExprTokens} \cup MapInputs

InitExpr ==
  /\ InitParser
  /\ vocab = [items |-> {}, len |-> 0]
  /\ bom = IdleBom
  /\ imp = IdleImp
  /\ sub \in {[fn |-> "expr", input |-> i, status |-> "init", called |-> "",
               delayed |-> FALSE, error_msg |-> "", node |-> lexed_number,
               pos |-> 1] : i \in ExprInputs}

\* the result of a call is recorded
ExprReturn(called, delayed, r) ==
  sub' = [sub EXCEPT !.status = IF r.err = "" THEN "done" ELSE "error",
                     !.called = called, !.delayed = delayed,
                     !.error_msg = r.err, !.node = r.node, !.pos = r.pos]

\* parse_map is called on the buffer (the text after a `(`)
CallParseMap ==
  /\ sub.fn = "expr" /\ sub.status = "init"
  /\ ExprReturn("parse_map", FALSE, parse_map(sub.input, 1))
  /\ UNCHANGED <<pvars, bom, imp>>

\* parse_bracket_list is called on the buffer (the text after a `[`)
CallParseBracketList ==
  /\ sub.fn = "expr" /\ sub.status = "init"
  /\ ExprReturn("parse_bracket_list", FALSE, parse_bracket_list(sub.input, 1))
  /\ UNCHANGED <<pvars, bom, imp>>

\* parse_comma_list is called on the buffer
CallParseCommaList ==
  /\ sub.fn = "expr" /\ sub.status = "init"
  /\ \E d \in BOOLEAN :
       ExprReturn("parse_comma_list", d, parse_comma_list(sub.input, 1, d))
  /\ UNCHANGED <<pvars, bom, imp>>

\* parse_space_list is called on the buffer
CallParseSpaceList ==
  /\ sub.fn = "expr" /\ sub.status = "init"
  /\ ExprReturn("parse_space_list", FALSE, parse_space_list(sub.input, 1))
  /\ UNCHANGED <<pvars, bom, imp>>

NextExpr ==
  \/ CallParseMap
  \/ CallParseBracketList
  \/ CallParseCommaList
  \/ CallParseSpaceList

SpecExpr == InitExpr /\ [][NextExpr]_vars

\* the nesting depth of the token at index i: the `(` and `[` before it
\* that are not closed
ExprDepth(toks, i) ==
  Cardinality({j \in 1..(i - 1) : toks[j] \in {"(", "["}})
  - Cardinality({j \in 1..(i - 1) : toks[j] \in {")", "]"}})

\* the indices of the tokens t outside any parentheses or brackets
TopLevel(toks, t) ==
  {i \in DOMAIN toks : toks[i] = t /\ ExprDepth(toks, i) = 0}

RECURSIVE SplitTop(_, _)
\* the parts of toks between the tokens t outside parentheses and brackets
SplitTop(toks, t) ==
  IF TopLevel(toks, t) = {} THEN <<toks>>
  ELSE LET c == Min(TopLevel(toks, t))
       IN <<SubSeq(toks, 1, c - 1)>> \o SplitTop(SubSeq(toks, c + 1, Len(toks)), t)

\* part is one complete space list (or single expression)
WellFormedPart(part) ==
  /\ part # <<>>
  /\ parse_space_list(part, 1).err = ""
  /\ parse_space_list(part, 1).pos = Len(part) + 1

\* C12: parse_map after `(`.  With every key and value a well-formed
\* space list: no `:` after the first list gives that list back; pairs
\* key : value separated by commas give a map of 2k entries in source
\* order (the first key as parse_list returns it, the other keys and the
\* values as parse_space_list does), a trailing comma before `)` adding
\* none; a later part without
\* `:` is the error expected ":"; a first key that is a comma list is
\* the error expected ")".
C12_ParseMap ==
  (sub.fn = "expr" /\ sub.called = "parse_map"
   /\ TopLevel(sub.input, ")") # {}) =>
    LET close == Min(TopLevel(sub.input, ")"))
        body == SubSeq(sub.input, 1, close - 1)
        segs == SplitTop(body, ",")
        trailing == Len(segs) >= 2 /\ segs[Len(segs)] = <<>>
        core == IF trailing THEN SubSeq(segs, 1, Len(segs) - 1) ELSE segs
        parts == [i \in DOMAIN core |-> SplitTop(core[i], ":")]
        wf == \A i \in DOMAIN core :
                /\ Len(parts[i]) <= 2
                /\ \A k \in DOMAIN parts[i] : WellFormedPart(parts[i][k])
        val(p) == parse_space_list(p, 1).node
        commaKey == val(parts[1][1]).kind = "List" /\ val(parts[1][1]).sep = "COMMA"
        pairs == {i \in DOMAIN core : Len(parts[i]) = 2}
    IN wf =>
         IF pairs = {}
         THEN /\ sub.status = "done"
              /\ sub.node = parse_comma_list(body, 1, FALSE).node
              /\ sub.pos = close
         ELSE IF 1 \notin pairs \/ commaKey
         THEN sub.status = "error" /\ sub.error_msg = ExpectedRParenMsg
         ELSE IF pairs # DOMAIN core
         THEN sub.status = "error" /\ sub.error_msg = ExpectedColonMsg
         ELSE /\ sub.status = "done"
              /\ sub.pos = close
              /\ sub.node.kind = "List"
              /\ sub.node.sep = "HASH"
              /\ Len(sub.node.items) = 2 * Len(core)
              /\ sub.node.items[1] = parse_list(parts[1][1], 1, FALSE).node
              /\ \A i \in DOMAIN core :
                   /\ i > 1 => sub.node.items[2 * i - 1] = val(parts[i][1])
                   /\ sub.node.items[2 * i] = val(parts[i][2])

\* a map of two pairs with a trailing comma, the first key a space list
C12_Witness ==
  /\ sub.fn = "expr"
  /\ sub.called = "parse_map"
  /\ sub.status = "done"
  /\ sub.input = <<"n", "n", ":", "n", ",", "n", ":", "[", "n", "]", ",", ")">>
  /\ sub.node.sep = "HASH"
  /\ Len(sub.node.items) = 4

\* the first token of toks outside parentheses and brackets that ends a
\* space list, "" when there is none
FirstTopLevelEnd(toks) ==
  LET ends == {i \in DOMAIN toks :
                 toks[i] \in {",", ")", "]", ":"} /\ ExprDepth(toks, i) = 0}
  IN IF ends = {} THEN "" ELSE toks[Min(ends)]

C14_NoSingletonWrapping ==
  /\ (sub.fn = "expr" /\ sub.called = "parse_comma_list" /\ sub.status = "done"
      /\ ~list_terminator(sub.input, 1)) =>
       LET first == parse_space_list(sub.input, 1)
       IN IF ExprAt(sub.input, first.pos) # ","
          THEN /\ sub.node = [first.node EXCEPT !.delayed = @ /\ sub.delayed]
               /\ sub.pos = first.pos
          ELSE /\ sub.node.kind = "List"
               /\ sub.node.sep = "COMMA"
               /\ ~sub.node.bracketed
               /\ sub.node.items[1] = first.node
  /\ (sub.fn = "expr" /\ sub.called = "parse_space_list" /\ sub.status = "done") =>
       LET first == parse_disjunction(sub.input, 1)
       IN IF space_list_terminator(sub.input, first.pos)
          THEN sub.node = first.node /\ sub.pos = first.pos
          ELSE /\ sub.node.kind = "List"
               /\ sub.node.sep = "SPACE"
               /\ Len(sub.node.items) >= 2
               /\ sub.node.items[1] = first.node

\* a space list of two numbers through parse_comma_list: no comma List
\* around it
C14_Witness ==
  /\ sub.fn = "expr"
  /\ sub.status = "done"
  /\ sub.called = "parse_comma_list"
  /\ sub.input = <<"n", "n">>
  /\ sub.node.sep = "SPACE"
  /\ sub.node.items = <<lexed_number, lexed_number>>

\* ------------------------------------------------------------------
\* fold_operands: the operands and operators lexed by parse_operators and
\* parse_expression are folded into Binary_Expression nodes
\* ------------------------------------------------------------------

FoldNode(kind, op, delayed, interp, kids) ==
  [kind |-> kind, op |-> op, delayed |-> delayed, interp |-> interp,
   kids |-> kids]

\* a number literal: lexed_number marks it delayed
FoldNumber == FoldNode("Number", "", TRUE, FALSE, <<>>)

\* a variable
FoldVariable == FoldNode("Variable", "", FALSE, FALSE, <<>>)

\* an interpolated identifier such as #{$x}: a String_Schema that has
\* interpolants
FoldSchema == FoldNode("String_Schema", "", FALSE, TRUE, <<>>)

\* a new Binary_Expression is not delayed
NewBinary(op, left, right) ==
  FoldNode("Binary_Expression", op, FALSE, FALSE, <<left, right>>)

\* Binary_Expression::set_delayed sets both children and the node itself
RECURSIVE BinarySetDelayed(_, _)
BinarySetDelayed(e, d) ==
  IF e.kind = "Binary_Expression"
  THEN [e EXCEPT !.delayed = d,
                 !.kids = <<BinarySetDelayed(e.kids[1], d),
                            BinarySetDelayed(e.kids[2], d)>>]
  ELSE [e EXCEPT !.delayed = d]

\* a parenthesized division (1/2): parse_map hands back what parse_list
\* returns, and parse_comma_list has cleared its delayed flags
FoldParen == BinarySetDelayed(NewBinary("DIV", FoldNumber, FoldNumber), FALSE)

\* the operators ops[0] may be for the rest to be folded behind a leading
\* interpolated schema
SchemaOps == {"EQ", "ADD", "DIV", "MUL", "NEQ", "LT", "GT", "LTE", "GTE"}

\* a division between two delayed operands is marked delayed
MarkDelayed(b, op) ==
  IF op = "DIV" /\ b.kids[1].delayed /\ b.kids[2].delayed
  THEN [b EXCEPT !.delayed = TRUE]
  ELSE b

\* nested binary expressions are never to be delayed
FoldFinish(base) ==
  IF base.kind # "Binary_Expression" THEN base
  ELSE IF base.kids[1].kind = "Binary_Expression"
          \/ base.kids[2].kind = "Binary_Expression"
       THEN BinarySetDelayed(base, FALSE)
       ELSE base

\* operands and ops are indexed from 1, i is the next operand to fold
RECURSIVE fold_operands(_, _, _, _)
RECURSIVE FoldLoop(_, _, _, _)
FoldLoop(base, operands, ops, i) ==
  IF i > Len(operands) THEN FoldFinish(base)
  ELSE IF operands[i].kind = "String_Schema" /\ operands[i].interp
       THEN IF i < Len(operands)
            THEN NewBinary(ops[i], base,
                   NewBinary(ops[i], operands[i],
                     fold_operands(operands[i + 1], operands, ops, i + 2)))
            ELSE NewBinary(ops[i], base, operands[i])
       ELSE FoldLoop(MarkDelayed(NewBinary(ops[i], base, operands[i]), ops[i]),
                     operands, ops, i + 1)

fold_operands(base, operands, ops, i) ==
  IF /\ base.kind = "String_Schema"
     /\ base.interp
     /\ i < Len(operands)
     /\ ops[1] \in SchemaOps
  THEN NewBinary(ops[1], base,
                 fold_operands(operands[i], operands, ops, i + 1))
  ELSE FoldLoop(base, operands, ops, i)

\* the operands parse_operators folds, after the first factor
MaxFoldOperands == 3

\* what parse_factor returns
Factors == {FoldNumber, FoldVariable, FoldSchema, FoldParen}

\* class_char< static_ops >
StaticOps == {"MUL", "DIV", "MOD"}

SeqsOf(S, n) == UNION {[1..k -> S] : k \in 0..n}

FoldInputs ==
  UNION {{[base |-> b, operands |-> os, ops |-> ps]
            : b \in Factors, ps \in [1..Len(os) -> StaticOps]}
           : os \in SeqsOf(Factors, MaxFoldOperands)}

\* what parse_operators returns for one factor, and for a division of two
\* numbers
FoldTerms ==
  {fold_operands(f, <<>>, <<>>, 1) : f \in Factors}
    \cup {fold_operands(FoldNumber, <<FoldNumber>>, <<"DIV">>, 1)}

InitFold ==
  /\ InitParser
  /\ vocab = [items |-> {}, len |-> 0]
  /\ bom = IdleBom
  /\ imp = IdleImp
  /\ sub \in {[fn |-> "fold", input |-> i, status |-> "init",
               node |-> FoldNumber] : i \in FoldInputs}

\* parse_operators: the factors and the operators between them are folded
CallParseOperators ==
  /\ sub.fn = "fold"
  /\ sub.status = "init"
  /\ sub' = [sub EXCEPT !.status = "operators",
                        !.node = fold_operands(sub.input.base,
                                               sub.input.operands,
                                               sub.input.ops, 1)]
  /\ UNCHANGED <<pvars, bom, imp>>

\* parse_expression: the term is the left side of one + or - with another
\* term
CallParseExpression ==
  /\ sub.fn = "fold"
  /\ sub.status = "operators"
  /\ \E op \in {"ADD", "SUB"}, rhs \in FoldTerms :
       sub' = [sub EXCEPT !.status = "expression",
                          !.node = fold_operands(sub.node, <<rhs>>, <<op>>, 1)]
  /\ UNCHANGED <<pvars, bom, imp>>

NextFold == CallParseOperators \/ CallParseExpression

SpecFold == InitFold /\ [][NextFold]_vars

\* every Binary_Expression of a tree
RECURSIVE Binaries(_)
Binaries(e) ==
  IF e.kind # "Binary_Expression" THEN {}
  ELSE {e} \cup Binaries(e.kids[1]) \cup Binaries(e.kids[2])

IsLeaf(e) == e.kind # "Binary_Expression"

Folded == sub.fn = "fold" /\ sub.status \in {"operators", "expression"}

\* a division of two delayed leaves is marked delayed
FoldDivisionOfLeavesDelayed ==
  Folded =>
    \A b \in Binaries(sub.node) :
      (/\ b.op = "DIV"
       /\ IsLeaf(b.kids[1]) /\ b.kids[1].delayed
       /\ IsLeaf(b.kids[2]) /\ b.kids[2].delayed) => b.delayed

\* a binary expression with a binary child is not marked delayed
FoldNestedNotDelayed ==
  Folded =>
    \A b \in Binaries(sub.node) :
      (~IsLeaf(b.kids[1]) \/ ~IsLeaf(b.kids[2])) => ~b.delayed

\* only a division is marked delayed
FoldOnlyDivisionDelayed ==
  Folded =>
    \A b \in Binaries(sub.node) : b.op # "DIV" => ~b.delayed

\* C15: in what fold_operands returns, a division of two delayed leaves is
\* marked delayed, a binary expression that has a binary expression as a
\* child is not marked delayed, and a binary expression whose operator is
\* not `/` is not marked delayed
C15_DelayedDivision ==
  /\ FoldDivisionOfLeavesDelayed
  /\ FoldNestedNotDelayed
  /\ FoldOnlyDivisionDelayed

\* ------------------------------------------------------------------
\* css_error: the source around the failure position is cut out for the
\* message. A buffer is a sequence of code points, a pointer is the number
\* of code points before it
\* ------------------------------------------------------------------

max_len == 18

\* the bytes kept of a side that is marked with an ellipsis
SubposLen == 15

NewLines == {"\n", "\r"}

\* Util::ascii_isspace
AsciiSpaces == {" ", "\t", "\n", "\r"}

\* *p: the code point at a pointer, NUL at the end of the buffer
CharAt(src, p) == IF p < Len(src) THEN src[p + 1] ELSE "NUL"

\* the UTF-8 bytes of a code point
Utf8Bytes(c) == IF c = "é" THEN <<"C3", "A9">> ELSE <<c>>

\* std::string(begin, end): the bytes between two pointers
RECURSIVE StdString(_, _, _)
StdString(src, b, e) ==
  IF b >= e THEN <<>>
  ELSE Utf8Bytes(src[b + 1]) \o StdString(src, b + 1, e)

\* Constants::ellipsis
Ellipsis == <<"ELLIPSIS">>

\* peek < optional_spaces >()
RECURSIVE PeekOptionalSpaces(_, _)
PeekOptionalSpaces(src, p) ==
  IF CharAt(src, p) \in AsciiSpaces THEN PeekOptionalSpaces(src, p + 1) ELSE p

\* backup position to last significant char
RECURSIVE TrimBack(_, _, _)
TrimBack(src, trim, last_pos) ==
  IF trim /\ last_pos > 0 /\ last_pos < Len(src)
       /\ CharAt(src, last_pos) \in AsciiSpaces
  THEN TrimBack(src, trim, last_pos - 1)
  ELSE last_pos

\* the loop that moves pos_left towards the start of the line
RECURSIVE LeftLoop(_, _, _)
LeftLoop(src, pos_left, end_left) ==
  IF pos_left > 0
  THEN IF end_left - pos_left >= max_len
       THEN [pos_left |-> pos_left,
             ellipsis_left |-> CharAt(src, pos_left - 1) \notin NewLines]
       ELSE IF CharAt(src, pos_left - 1) \in NewLines
            THEN [pos_left |-> pos_left, ellipsis_left |-> FALSE]
            ELSE LeftLoop(src, pos_left - 1, end_left)
  ELSE [pos_left |-> pos_left, ellipsis_left |-> FALSE]

\* the loop that moves end_right towards the end of the line; over tells
\* that the distance test stopped it
RECURSIVE RightLoop(_, _, _)
RightLoop(src, pos_right, end_right) ==
  IF end_right < Len(src)
  THEN IF end_right - pos_right > max_len
       THEN [end_right |-> end_right, over |-> TRUE]
       ELSE IF CharAt(src, end_right) \in NewLines
            THEN [end_right |-> end_right, over |-> FALSE]
            ELSE RightLoop(src, pos_right, end_right + 1)
  ELSE [end_right |-> end_right, over |-> FALSE]

css_error(src, pos0, trim) ==
  LET pos == PeekOptionalSpaces(src, pos0)
      last_pos == TrimBack(src, trim, IF pos > 0 THEN pos - 1 ELSE pos)
      end_left == IF CharAt(src, last_pos) # "NUL" THEN last_pos + 1
                                                  ELSE last_pos
      l == LeftLoop(src, end_left, end_left)
      r == RightLoop(src, pos, pos)
      ellipsis_left == IF r.over THEN CharAt(src, pos) \notin NewLines
                                 ELSE l.ellipsis_left
      ellipsis_right == FALSE
      left == StdString(src, l.pos_left, end_left)
      right == StdString(src, pos, r.end_right)
      left_subpos == IF Len(left) > SubposLen THEN Len(left) - SubposLen ELSE 0
      right_subpos == IF Len(right) > SubposLen THEN Len(right) - SubposLen
                                                 ELSE 0
  IN [pos |-> pos,
      end_left |-> end_left,
      left_points |-> end_left - l.pos_left,
      right_points |-> r.end_right - pos,
      left |-> IF left_subpos > 0 /\ ellipsis_left
               THEN Ellipsis \o SubSeq(left, left_subpos + 1, Len(left))
               ELSE left,
      right |-> IF right_subpos > 0 /\ ellipsis_right
                THEN SubSeq(right, right_subpos + 1, Len(right)) \o Ellipsis
                ELSE right]

\* the code points on either side of the failure position in the buffers
MaxSide == 20

Repeat(c, n) == [i \in 1..n |-> c]

ErrorBuffers ==
  {[source |-> before \o Repeat(cl, nl) \o Repeat(cr, nr) \o after,
    position |-> Len(before) + nl]
     : before \in {<<>>, <<"a", "\n">>},
       after \in {<<>>, <<"\n", "a">>},
       cl \in {"a", "é"}, cr \in {"b", "é"},
       nl \in 0..MaxSide, nr \in 0..MaxSide}

InitError ==
  /\ InitParser
  /\ vocab = [items |-> {}, len |-> 0]
  /\ bom = IdleBom
  /\ imp = IdleImp
  /\ sub \in {[fn |-> "css_error", input |-> i, status |-> "init",
               trim |-> TRUE, node |-> css_error(<<>>, 0, TRUE)]
                : i \in ErrorBuffers}

\* the parser fails at the position and builds the message
CssError ==
  /\ sub.fn = "css_error"
  /\ sub.status = "init"
  /\ \E trim \in BOOLEAN :
       sub' = [sub EXCEPT !.status = "error",
                          !.trim = trim,
                          !.node = css_error(sub.input.source,
                                             sub.input.position, trim)]
  /\ UNCHANGED <<pvars, bom, imp>>

NextError == CssError

SpecError == InitError /\ [][NextError]_vars

\* the code points of the line before a pointer
RECURSIVE LineBefore(_, _)
LineBefore(src, p) ==
  IF p = 0 \/ CharAt(src, p - 1) \in NewLines THEN 0
  ELSE 1 + LineBefore(src, p - 1)

\* the code points of the line from a pointer on
RECURSIVE LineAfter(_, _)
LineAfter(src, p) ==
  IF p >= Len(src) \/ CharAt(src, p) \in NewLines THEN 0
  ELSE 1 + LineAfter(src, p + 1)

HasEllipsis(s) == \E i \in 1..Len(s) : s[i] = "ELLIPSIS"

Failed == sub.fn = "css_error" /\ sub.status = "error"

TextLeft == LineBefore(sub.input.source, sub.node.end_left)

TextRight == LineAfter(sub.input.source, sub.node.pos)

\* each side holds at most max_len code points
ErrorSidesLimited ==
  Failed => sub.node.left_points <= max_len /\ sub.node.right_points <= max_len

\* a left side longer than the limit is marked with a leading ellipsis
ErrorLeftMarked ==
  (Failed /\ TextLeft > max_len) =>
    (Len(sub.node.left) > 0 /\ sub.node.left[1] = "ELLIPSIS")

\* a right side longer than the limit is marked with a trailing ellipsis
ErrorRightMarked ==
  (Failed /\ TextRight > max_len) =>
    (Len(sub.node.right) > 0
       /\ sub.node.right[Len(sub.node.right)] = "ELLIPSIS")

\* a side whose text is within the limit has no ellipsis
ErrorWithinLimitUnmarked ==
  Failed =>
    /\ TextLeft <= max_len => ~HasEllipsis(sub.node.left)
    /\ TextRight <= max_len => ~HasEllipsis(sub.node.right)

\* C16: each side of the message holds at most 18 code points of its side
\* of the line, a side whose text is longer is marked with an ellipsis
\* (leading on the left, trailing on the right), and a side whose text is
\* within the limit has none
C16_ErrorContext ==
  /\ ErrorSidesLimited
  /\ ErrorLeftMarked
  /\ ErrorRightMarked
  /\ ErrorWithinLimitUnmarked

\* ------------------------------------------------------------------
\* The names stored in the AST: each parser takes the lexed spelling of a
\* variable, mixin or function name and hands a name to the node it builds
\* ------------------------------------------------------------------

NameChars == {"a", "_", "-"}

\* Prelexer::identifier on the whole spelling: it holds more than hyphens
IsIdentifier(str) ==
  Len(str) > 0 /\ \E i \in 1..Len(str) : str[i] # "-"

NamedNode(type, name) == [type |-> type, name |-> name]

NoNode == NamedNode("", <<>>)

InvalidNameMsg == "invalid name in definition"

ExpectedIdentifierMsg == "Invalid CSS: expected identifier"

\* not the code: a definition keeps the spelling of the source
DefinitionName_raw(lexed) == lexed

\* the name parse_definition hands to the Definition
DefinitionName(lexed) == normalize_underscores(lexed)

\* the name parse_function_call hands to the Function_Call: the spelling
\* lexed; the normalized name is used for the content-exists test only
FunctionCallName(lexed) == lexed

\* the longest spelling of a name
MaxNameLen == 3

Spellings == UNION {[1..n -> NameChars] : n \in 1..MaxNameLen}

\* the parsers that lex the name themselves and those entered with the
\* name lexed
LexingSites == {"parse_definition", "parse_include_directive"}

LexedSites == {"parse_parameter", "parse_argument", "parse_assignment",
               "parse_value", "parse_function_call"}

NameInputs ==
  {[site |-> s, lexed |-> l, which_type |-> "MIXIN"]
     : s \in LexingSites \ {"parse_definition"}, l \in Spellings}
  \cup {[site |-> "parse_definition", lexed |-> l, which_type |-> t]
          : l \in Spellings, t \in {"MIXIN", "FUNCTION"}}
  \cup {[site |-> s, lexed |-> l, which_type |-> "MIXIN"]
          : s \in LexedSites, l \in {x \in Spellings : IsIdentifier(x)}}

InitNames ==
  /\ InitParser
  /\ vocab = [items |-> {}, len |-> 0]
  /\ bom = IdleBom
  /\ imp = IdleImp
  /\ sub \in {[fn |-> "names", input |-> i, status |-> "init",
               error_msg |-> "", node |-> NoNode] : i \in NameInputs}

NameDone(node) ==
  sub' = [sub EXCEPT !.status = "done", !.node = node]

NameError(msg) ==
  sub' = [sub EXCEPT !.status = "error", !.error_msg = msg]

AtSite(s) == sub.fn = "names" /\ sub.status = "init" /\ sub.input.site = s

\* @mixin and @function
ParseDefinitionName ==
  /\ AtSite("parse_definition")
  /\ IF ~IsIdentifier(sub.input.lexed)
     THEN NameError(InvalidNameMsg)
     ELSE NameDone(NamedNode(IF sub.input.which_type = "MIXIN"
                             THEN "Definition_MIXIN"
                             ELSE "Definition_FUNCTION",
                             DefinitionName(sub.input.lexed)))
  /\ UNCHANGED <<pvars, bom, imp>>

ParseParameterName ==
  /\ AtSite("parse_parameter")
  /\ NameDone(NamedNode("Parameter", normalize_underscores(sub.input.lexed)))
  /\ UNCHANGED <<pvars, bom, imp>>

\* a named argument
ParseArgumentName ==
  /\ AtSite("parse_argument")
  /\ NameDone(NamedNode("Argument", normalize_underscores(sub.input.lexed)))
  /\ UNCHANGED <<pvars, bom, imp>>

ParseAssignmentName ==
  /\ AtSite("parse_assignment")
  /\ NameDone(NamedNode("Assignment", normalize_underscores(sub.input.lexed)))
  /\ UNCHANGED <<pvars, bom, imp>>

\* @include
ParseIncludeName ==
  /\ AtSite("parse_include_directive")
  /\ IF ~IsIdentifier(sub.input.lexed)
     THEN NameError(ExpectedIdentifierMsg)
     ELSE NameDone(NamedNode("Mixin_Call",
                             normalize_underscores(sub.input.lexed)))
  /\ UNCHANGED <<pvars, bom, imp>>

\* a variable in a value
ParseVariableName ==
  /\ AtSite("parse_value")
  /\ NameDone(NamedNode("Variable", normalize_underscores(sub.input.lexed)))
  /\ UNCHANGED <<pvars, bom, imp>>

ParseFunctionCallName ==
  /\ AtSite("parse_function_call")
  /\ NameDone(NamedNode("Function_Call", FunctionCallName(sub.input.lexed)))
  /\ UNCHANGED <<pvars, bom, imp>>

NextNames ==
  \/ ParseDefinitionName
  \/ ParseParameterName
  \/ ParseArgumentName
  \/ ParseAssignmentName
  \/ ParseIncludeName
  \/ ParseVariableName
  \/ ParseFunctionCallName

SpecNames == InitNames /\ [][NextNames]_vars

HasUnderscore(str) == \E i \in 1..Len(str) : str[i] = "_"

\* the same spelling up to _ and -
SameUpToUnderscore(s, t) ==
  /\ Len(s) = Len(t)
  /\ \A i \in 1..Len(s) : s[i] = t[i] \/ {s[i], t[i]} = {"_", "-"}

Named == sub.fn = "names" /\ sub.status = "done"

\* the stored name is the spelling with each _ turned into -
Canonical ==
  /\ ~HasUnderscore(sub.node.name)
  /\ SameUpToUnderscore(sub.node.name, sub.input.lexed)

\* C17 as stated: the name stored in every node, a Function_Call included,
\* is the source spelling with every `_` replaced by `-`
C17_AllNamesCanonical == Named => Canonical

\* C17: the name stored in an Assignment, Variable, Parameter, named
\* Argument, Definition or Mixin_Call is the source spelling with every `_`
\* replaced by `-`; the name stored in a Function_Call is the source
\* spelling itself
C17_NamesCanonicalButCalls ==
  Named =>
    IF sub.node.type = "Function_Call"
    THEN sub.node.name = sub.input.lexed
    ELSE Canonical

\* a function definition and a function call spelled a_a: the definition
\* is stored as a-a
C17_Witness ==
  /\ Named
  /\ sub.node.type = "Definition_FUNCTION"
  /\ sub.input.lexed = <<"a", "_", "a">>
  /\ sub.node.name = <<"a", "-", "a">>

\* the call spelled a_a is stored as a_a
CallKeepsSpelling ==
  /\ Named
  /\ sub.node.type = "Function_Call"
  /\ sub.input.lexed = <<"a", "_", "a">>
  /\ sub.node.name = <<"a", "_", "a">>

\* ------------------------------------------------------------------
\* parse_at_root_block on the tokens behind @at-root: ( q ) is a query,
\* s a piece of selector, ; an empty statement
\* ------------------------------------------------------------------

AtRootTokens == {"(", "q", ")", "{", "}", "s", ";"}

AtRootNode(kind, is_root, has_expr, kids) ==
  [kind |-> kind, is_root |-> is_root, has_expr |-> has_expr, kids |-> kids]

\* SASS_MEMORY_NEW(Block, pstate, 0, is_root)
NewBlock(is_root, stmts) == AtRootNode("Block", is_root, FALSE, stmts)

AtRootOk(node, pos) == [err |-> "", node |-> node, pos |-> pos]

AtRootErr(msg) == [err |-> msg, node |-> NewBlock(FALSE, <<>>), pos |-> 0]

AtRootFeatureMsg == "at-root feature required in at-root expression"

AtRootWithMsg == "Invalid CSS after : expected \"with\" or \"without\", was "

AtRootUnclosedMsg == "unclosed parenthesis in @at-root expression"

AtRootAt(toks, pos) == IF pos <= Len(toks) THEN toks[pos] ELSE "EOF"

\* re_selector_list from a position: the token behind the selector
RECURSIVE SelectorEnd(_, _)
SelectorEnd(toks, pos) ==
  IF AtRootAt(toks, pos) = "s" THEN SelectorEnd(toks, pos + 1) ELSE pos

\* lookahead_for_selector: found at `{` or `(` behind a selector
lookahead_for_selector(toks, pos) ==
  LET q == SelectorEnd(toks, pos)
  IN [found |-> q > pos /\ AtRootAt(toks, q) \in {"{", "("}, position |-> q]

RECURSIVE parse_css_block(_, _, _)
RECURSIVE parse_block_nodes(_, _, _, _)
RECURSIVE parse_ruleset(_, _, _)

\* the statements of a block up to its closing brace: empty statements and
\* rulesets; err is set where parse_block_node finds no statement
parse_block_nodes(toks, pos, is_root, stmts) ==
  IF AtRootAt(toks, pos) \in {"}", "EOF"} THEN AtRootOk(NewBlock(is_root, stmts), pos)
  ELSE IF AtRootAt(toks, pos) = ";"
       THEN parse_block_nodes(toks, pos + 1, is_root, stmts)
       ELSE IF lookahead_for_selector(toks, pos).found
            THEN LET r == parse_ruleset(toks, pos, is_root)
                 IN IF r.err # "" THEN r
                    ELSE parse_block_nodes(toks, r.pos, is_root,
                                           Append(stmts, r.node))
            ELSE AtRootErr(ExpectedRBraceMsg)

parse_css_block(toks, pos, is_root) ==
  IF AtRootAt(toks, pos) # "{" THEN AtRootErr(ExpectedLBraceMsg)
  ELSE LET b == parse_block_nodes(toks, pos + 1, is_root, <<>>)
       IN IF b.err # "" THEN b
          ELSE IF AtRootAt(toks, b.pos) # "}" THEN AtRootErr(ExpectedRBraceMsg)
               ELSE AtRootOk(b.node, b.pos + 1)

\* the selector, then the inner block; is_root is inherited from the
\* parent block
parse_ruleset(toks, pos, parent_is_root) ==
  LET b == parse_css_block(toks, SelectorEnd(toks, pos), FALSE)
  IN IF b.err # "" THEN b
     ELSE AtRootOk(AtRootNode("Ruleset", parent_is_root, FALSE, <<b.node>>),
                   b.pos)

\* behind the `(`
parse_at_root_query(toks, pos) ==
  IF AtRootAt(toks, pos) = ")" THEN AtRootErr(AtRootFeatureMsg)
  ELSE IF AtRootAt(toks, pos) # "q" THEN AtRootErr(AtRootWithMsg)
       ELSE IF AtRootAt(toks, pos + 1) # ")" THEN AtRootErr(AtRootUnclosedMsg)
            ELSE AtRootOk(AtRootNode("At_Root_Query", FALSE, FALSE, <<>>),
                          pos + 2)

\* the body: <<the block>>, or <<>> where the code leaves body null
AtRootBody(toks, pos, parent_is_root) ==
  IF AtRootAt(toks, pos) = "{"
  THEN LET b == parse_css_block(toks, pos, TRUE)
       IN IF b.err # "" THEN b ELSE AtRootOk(<<b.node>>, b.pos)
  ELSE IF lookahead_for_selector(toks, pos).found
       THEN LET r == parse_ruleset(toks, pos, parent_is_root)
            IN IF r.err # "" THEN r
               ELSE AtRootOk(<<NewBlock(TRUE, <<r.node>>)>>, r.pos)
       ELSE AtRootOk(<<>>, pos)

parse_at_root_block(toks, parent_is_root) ==
  LET e == IF AtRootAt(toks, 1) = "("
           THEN parse_at_root_query(toks, 2)
           ELSE AtRootOk(NewBlock(FALSE, <<>>), 1)
  IN IF e.err # "" THEN e
     ELSE LET b == AtRootBody(toks, e.pos, parent_is_root)
          IN IF b.err # "" THEN AtRootErr(b.err)
             ELSE AtRootOk(AtRootNode("At_Root_Block", FALSE,
                                      AtRootAt(toks, 1) = "(", b.node),
                           b.pos)

\* the tokens behind @at-root
MaxAtRootTokens == 5

AtRootInputs == UNION {[1..n -> AtRootTokens] : n \in 0..MaxAtRootTokens}

InitAtRoot ==
  /\ InitParser
  /\ vocab = [items |-> {}, len |-> 0]
  /\ bom = IdleBom
  /\ imp = IdleImp
  /\ sub \in {[fn |-> "at_root", input |-> i, status |-> "init",
               error_msg |-> "", node |-> NewBlock(FALSE, <<>>), pos |-> 0]
                : i \in AtRootInputs}

\* @at-root has been lexed in a block that is the root block or is not
CallParseAtRootBlock ==
  /\ sub.fn = "at_root"
  /\ sub.status = "init"
  /\ \E parent_is_root \in BOOLEAN :
       LET r == parse_at_root_block(sub.input, parent_is_root)
       IN sub' = [sub EXCEPT !.status = IF r.err = "" THEN "done" ELSE "error",
                             !.error_msg = r.err,
                             !.node = r.node,
                             !.pos = r.pos]
  /\ UNCHANGED <<pvars, bom, imp>>

NextAtRoot == CallParseAtRootBlock

SpecAtRoot == InitAtRoot /\ [][NextAtRoot]_vars

AtRootParsed == sub.fn = "at_root" /\ sub.status = "done"

\* the tokens behind the optional query
AtRootRest ==
  IF AtRootAt(sub.input, 1) = "(" THEN 4 ELSE 1

\* the body of the At_Root_Block is one Block
AtRootBodyIsBlock ==
  AtRootParsed =>
    /\ sub.node.kind = "At_Root_Block"
    /\ Len(sub.node.kids) = 1
    /\ sub.node.kids[1].kind = "Block"

\* a ruleset follows: a selector and an opening brace
AtRootRulesetFollows ==
  /\ AtRootAt(sub.input, AtRootRest) = "s"
  /\ AtRootAt(sub.input, SelectorEnd(sub.input, AtRootRest)) = "{"

\* behind a ruleset the body is a block of exactly that ruleset
AtRootRulesetWrapped ==
  (AtRootParsed /\ AtRootRulesetFollows) =>
    /\ Len(sub.node.kids) = 1
    /\ Len(sub.node.kids[1].kids) = 1
    /\ sub.node.kids[1].kids[1].kind = "Ruleset"

\* behind neither a block nor a ruleset no At_Root_Block is built
AtRootNeedsBody ==
  AtRootParsed =>
    (AtRootAt(sub.input, AtRootRest) = "{" \/ AtRootRulesetFollows)

\* C18: a successful parse of @at-root yields an At_Root_Block whose body
\* is a Block, the block parsed or a block of exactly the one ruleset that
\* follows; behind neither a block nor a ruleset no At_Root_Block is built
C18_AtRootBodyIsBlock ==
  /\ AtRootBodyIsBlock
  /\ AtRootRulesetWrapped
  /\ AtRootNeedsBody

\* ------------------------------------------------------------------
\* @else and the statement loop of a block
\* ------------------------------------------------------------------

RECURSIVE ScanOpen(_, _, _)
\* the index of the item that opened the block closed at depth 1, scanning
\* src backwards from index i; 0 when there is none
ScanOpen(src, i, depth) ==
  IF i < 1 THEN 0
  ELSE IF src[i] = "}" THEN ScanOpen(src, i - 1, depth + 1)
       ELSE IF src[i] \in Openers \cup {"@else{", "@else if{"}
            THEN IF depth = 1 THEN i ELSE ScanOpen(src, i - 1, depth - 1)
            ELSE ScanOpen(src, i - 1, depth)

RECURSIVE SkipSeparators(_, _)
\* the index of the last item before the cursor that is no `;`
SkipSeparators(src, i) ==
  IF i >= 1 /\ src[i] = ";" THEN SkipSeparators(src, i - 1) ELSE i

\* the item at index i closes the block of an @if or of an @else if
ClosesIf(src, i) ==
  /\ i >= 1
  /\ src[i] = "}"
  /\ ScanOpen(src, i - 1, 1) > 0
  /\ src[ScanOpen(src, i - 1, 1)] \in {"@if{", "@if ce{", "@else if{"}

\* the state of the statement loop of the open block is AfterIf: the last
\* statement is an If that can take an alternative, and only separators
\* lie between it and the cursor
AfterIf == ClosesIf(source, SkipSeparators(source, position))

\* AfterIf with nothing between the If and the cursor
AfterIfDirectly == ClosesIf(source, position)

\* this step looks at an @else or an @else if
AtElse ==
  /\ status = "running"
  /\ position < Len(source')
  /\ source'[position + 1] \in {"@else{", "@else if{"}

ElseAttached == status' = "running" /\ position' = position + 1

ElseRejected == status' = "error" /\ error_msg' = ElseMsg

\* C19 as stated: the @if parser takes an @else or @else if exactly when
\* the state machine of the block is in AfterIf, that is when the last
\* statement of the block is an If and only separators lie between it and
\* the @else; in every other situation the @else is rejected
C19_ElseRefinesStateMachine ==
  [][AtElse => IF AfterIf THEN ElseAttached ELSE ElseRejected]_vars

\* C19: the @if parser takes an @else or @else if exactly when the `}` of
\* an @if or of an @else if directly precedes it; in every other
\* situation, a `;` in between included, the @else is rejected with
\* "@else must come after @if"
C19_ElseTakenDirectlyAfterIf ==
  [][AtElse => IF AfterIfDirectly THEN ElseAttached ELSE ElseRejected]_vars

\* an @else behind an @if and a `;` has been rejected
C19_Witness ==
  /\ status = "error"
  /\ error_msg = ElseMsg
  /\ source = <<"@if{", "}", ";", "@else{">>
  /\ position = 3

\* ------------------------------------------------------------------
\* The cursor in parse_static_value, parse_identifier_schema and
\* parse_value_schema.  A buffer is a sequence of characters: "a" a letter,
\* "I" an interpolant #{...}, "," a character parse_value_schema has no
\* lexer for, ";" and "}" the end of a value.  The cursor is the number of
\* characters before it.
\* ------------------------------------------------------------------

\* the characters of a token or a value
MaxSchemaLen == 4

CharSeqs(S, lo) == UNION {[1..n -> S] : n \in lo..MaxSchemaLen}

CursorInputs ==
  {[called |-> "parse_identifier_schema", source |-> t \o <<";">>]
     : t \in CharSeqs({"a", "I"}, 1)}
  \cup {[called |-> "parse_value_schema", source |-> t \o <<";">>]
          : t \in CharSeqs({"a", "I", ","}, 0)}
  \cup {[called |-> "parse_static_value", source |-> t \o <<d>>]
          : t \in CharSeqs({"a"}, 1), d \in {";", "}"}}

CursorState(in, pc) ==
  [fn |-> "cursor", called |-> in.called, source |-> in.source, pc |-> pc,
   position |-> 0, entry |-> 0, id_end |-> 0, i |-> 0, o |-> 0, stop |-> 0,
   ret |-> ""]

InitCursor ==
  /\ InitParser
  /\ vocab = [items |-> {}, len |-> 0]
  /\ bom = IdleBom
  /\ imp = IdleImp
  /\ sub \in {CursorState(in, "call") : in \in CursorInputs}

\* the end of the run of letters from p, not past stop
RECURSIVE LetterRun(_, _, _)
LetterRun(src, p, stop) ==
  IF p < stop /\ src[p + 1] = "a" THEN LetterRun(src, p + 1, stop) ELSE p

\* find_first_in_interval< exactly<hash_lbrace>, block_comment >(i, end):
\* the first interpolant from i, end when there is none
RECURSIVE FirstInterpolant(_, _, _)
FirstInterpolant(src, i, end) ==
  IF i >= end THEN end
  ELSE IF src[i + 1] = "I" THEN i ELSE FirstInterpolant(src, i + 1, end)

\* the end of the token lex< identifier_schema > matches at the start
RECURSIVE TokenEnd(_, _)
TokenEnd(src, p) ==
  IF p < Len(src) /\ src[p + 1] \in {"a", "I"} THEN TokenEnd(src, p + 1) ELSE p

\* not the code: the cursor stays where the segment ended
RestoredPosition_kept(s) == s.position

\* position = o: the cursor goes back behind the token
RestoredPosition(s) == s.o

Cursor(pc) == sub.fn = "cursor" /\ sub.pc = pc

\* parse_factor: lex< identifier_schema >, then parse_identifier_schema is
\* entered with the cursor behind the token
LexIdentifierSchema ==
  /\ Cursor("call")
  /\ sub.called = "parse_identifier_schema"
  /\ LET e == TokenEnd(sub.source, 0)
     IN sub' = [sub EXCEPT !.position = e, !.entry = e, !.id_end = e,
                           !.i = 0, !.pc = "schema"]
  /\ UNCHANGED <<pvars, bom, imp>>

\* no interpolant in the token: a String_Constant is returned
SchemaNoInterpolant ==
  /\ Cursor("schema")
  /\ sub.i = 0
  /\ FirstInterpolant(sub.source, 0, sub.id_end) = sub.id_end
  /\ sub' = [sub EXCEPT !.pc = "returned"]
  /\ UNCHANGED <<pvars, bom, imp>>

\* a segment before an interpolant, or the last one: the cursor is saved
\* and set to the start of the segment, parse_value_schema is entered
SchemaSegment ==
  /\ Cursor("schema")
  /\ sub.i < sub.id_end
  /\ LET p == FirstInterpolant(sub.source, sub.i, sub.id_end)
     IN /\ sub.i < p
        /\ ~(sub.i = 0 /\ p = sub.id_end)
        /\ sub' = [sub EXCEPT !.o = sub.position, !.position = sub.i,
                              !.stop = p, !.pc = "value_schema",
                              !.ret = "restore"]
  /\ UNCHANGED <<pvars, bom, imp>>

\* parse_value_schema returned: the cursor is restored; behind the last
\* segment the loop is left
SchemaRestore ==
  /\ Cursor("restore")
  /\ sub' = [sub EXCEPT !.position = RestoredPosition(sub),
                        !.i = sub.stop,
                        !.pc = IF sub.stop = sub.id_end THEN "returned"
                                                        ELSE "schema"]
  /\ UNCHANGED <<pvars, bom, imp>>

\* the interpolant is parsed by a parser of its own on Token(p+2, j); the
\* scan goes on behind it
SchemaInterpolant ==
  /\ Cursor("schema")
  /\ sub.i < sub.id_end
  /\ sub.source[sub.i + 1] = "I"
  /\ sub' = [sub EXCEPT !.i = sub.i + 1]
  /\ UNCHANGED <<pvars, bom, imp>>

\* the token ended with an interpolant: the schema is returned
SchemaReturn ==
  /\ Cursor("schema")
  /\ sub.i >= sub.id_end
  /\ sub' = [sub EXCEPT !.pc = "returned"]
  /\ UNCHANGED <<pvars, bom, imp>>

\* a value with interpolants: parse_value_schema(lookahead.found)
CallParseValueSchema ==
  /\ Cursor("call")
  /\ sub.called = "parse_value_schema"
  /\ sub' = [sub EXCEPT !.stop = Len(sub.source) - 1, !.pc = "value_schema",
                        !.ret = "returned"]
  /\ UNCHANGED <<pvars, bom, imp>>

\* parse_value_schema: one pass of the loop lexes an identifier or an
\* interpolant
ValueSchemaLex ==
  /\ Cursor("value_schema")
  /\ sub.position < sub.stop
  /\ sub.source[sub.position + 1] \in {"a", "I"}
  /\ sub' = [sub EXCEPT !.position =
               IF sub.source[sub.position + 1] = "a"
               THEN LetterRun(sub.source, sub.position, sub.stop)
               ELSE sub.position + 1]
  /\ UNCHANGED <<pvars, bom, imp>>

\* parse_value_schema: the loop is left; what it did not lex becomes a
\* String_Constant and the cursor is set to stop
ValueSchemaEnd ==
  /\ Cursor("value_schema")
  /\ sub.position >= sub.stop \/ sub.source[sub.position + 1] \notin {"a", "I"}
  /\ sub' = [sub EXCEPT !.position = sub.stop, !.pc = sub.ret]
  /\ UNCHANGED <<pvars, bom, imp>>

\* parse_static_value: lex< static_value > takes the value and its end
\* delimiter
StaticValueLex ==
  /\ Cursor("call")
  /\ sub.called = "parse_static_value"
  /\ sub' = [sub EXCEPT !.position = Len(sub.source), !.pc = "static_value"]
  /\ UNCHANGED <<pvars, bom, imp>>

\* parse_static_value: --position gives the delimiter back
StaticValueBack ==
  /\ Cursor("static_value")
  /\ sub' = [sub EXCEPT !.position = sub.position - 1, !.pc = "returned"]
  /\ UNCHANGED <<pvars, bom, imp>>

NextCursor ==
  \/ LexIdentifierSchema
  \/ SchemaNoInterpolant
  \/ SchemaSegment
  \/ SchemaRestore
  \/ SchemaInterpolant
  \/ SchemaReturn
  \/ CallParseValueSchema
  \/ ValueSchemaLex
  \/ ValueSchemaEnd
  \/ StaticValueLex
  \/ StaticValueBack

SpecCursor == InitCursor /\ [][NextCursor]_vars

\* C20 as stated: no step of the parser assigns the cursor a value smaller
\* than the one it had before
C20_CursorNeverDecreases ==
  [][sub.fn = "cursor" => sub'.position >= sub.position]_vars

\* C20: the cursor a parser function returns with is not before the cursor
\* it was entered with; in between parse_identifier_schema sets the cursor
\* back into the token just lexed, never before its start, and
\* parse_static_value steps back by the one delimiter it lexed
C20_CursorNotBeforeEntry ==
  sub.fn = "cursor" =>
    /\ sub.position >= 0
    /\ sub.pc = "returned" => sub.position >= sub.entry
    /\ (sub.pc = "returned" /\ sub.called = "parse_identifier_schema")
         => sub.position = sub.id_end
    /\ (sub.pc = "returned" /\ sub.called = "parse_static_value")
         => sub.position = Len(sub.source) - 1

\* parse_identifier_schema has returned from a#{...}a: the cursor was set
\* back twice and is behind the token again
C20_Witness ==
  /\ sub.fn = "cursor"
  /\ sub.pc = "returned"
  /\ sub.source = <<"a", "I", "a", ";">>
  /\ sub.position = 3
  /\ sub.o = 3
  /\ sub.stop = 3

\* ------------------------------------------------------------------
\* The lookahead oracle on character buffers: a a letter, #{} one whole
\* interpolation, NUL behind the last character; pointers are indices,
\* 0 the null pointer
\* ------------------------------------------------------------------

LookAt(buf, p) == IF p \in 1..Len(buf) THEN buf[p] ELSE "NUL"

\* optional_spaces
RECURSIVE OptionalSpaces(_, _)
OptionalSpaces(buf, p) ==
  IF LookAt(buf, p) = " " THEN OptionalSpaces(buf, p + 1) ELSE p

\* zero_plus< exactly<'-'> >
RECURSIVE Hyphens(_, _)
Hyphens(buf, p) == IF LookAt(buf, p) = "-" THEN Hyphens(buf, p + 1) ELSE p

\* zero_plus< sequence< exactly<'-'>, optional_spaces > >
RECURSIVE HyphensAndSpaces(_, _)
HyphensAndSpaces(buf, p) ==
  IF LookAt(buf, p) = "-"
  THEN HyphensAndSpaces(buf, OptionalSpaces(buf, p + 1))
  ELSE p

\* the inside of a quoted string up to the closing quote
RECURSIVE QuotedRest(_, _)
QuotedRest(buf, p) ==
  CASE LookAt(buf, p) = "NUL" -> 0
    [] LookAt(buf, p) = "\"" -> p + 1
    [] LookAt(buf, p) = "\\" /\ LookAt(buf, p + 1) # "NUL" -> QuotedRest(buf, p + 2)
    [] OTHER -> QuotedRest(buf, p + 1)

\* quoted_string
quoted_string(buf, p) == IF LookAt(buf, p) = "\"" THEN QuotedRest(buf, p + 1) ELSE 0

\* identifier_alpha / identifier_alnum: a letter or an escape sequence; the
\* hyphen only behind the first of them
IdentChar(buf, p, first) ==
  CASE LookAt(buf, p) = "a" -> p + 1
    [] LookAt(buf, p) = "\\" /\ LookAt(buf, p + 1) # "NUL" -> p + 2
    [] LookAt(buf, p) = "-" /\ ~first -> p + 1
    [] OTHER -> 0

RECURSIVE IdentRest(_, _)
IdentRest(buf, p) ==
  IF IdentChar(buf, p, FALSE) = 0 THEN p ELSE IdentRest(buf, IdentChar(buf, p, FALSE))

\* identifier
identifier(buf, p) ==
  IF IdentChar(buf, Hyphens(buf, p), TRUE) = 0 THEN 0
  ELSE IdentRest(buf, IdentChar(buf, Hyphens(buf, p), TRUE))

\* interpolant
interpolant(buf, p) == IF LookAt(buf, p) = "#{}" THEN p + 1 ELSE 0

\* the main token of a selector: quoted_string, interpolant, identifier
SelectorToken(buf, p) ==
  IF quoted_string(buf, p) # 0 THEN quoted_string(buf, p)
  ELSE IF interpolant(buf, p) # 0 THEN interpolant(buf, p)
  ELSE identifier(buf, p)

\* one_plus< sequence< hyphens, main token > >, from the second round on
RECURSIVE SelectorTokens(_, _)
SelectorTokens(buf, p) ==
  IF SelectorToken(buf, HyphensAndSpaces(buf, p)) = 0 THEN p
  ELSE SelectorTokens(buf, SelectorToken(buf, HyphensAndSpaces(buf, p)))

\* pseudo_prefix, optional
PseudoPrefix(buf, p) ==
  IF LookAt(buf, p) # ":" THEN p
  ELSE IF LookAt(buf, p + 1) = ":" THEN p + 2 ELSE p + 1

\* the main selector match: the prefix, the tokens, the hyphens at the end
SelectorMain(buf, p) ==
  IF SelectorToken(buf, HyphensAndSpaces(buf, PseudoPrefix(buf, p))) = 0 THEN 0
  ELSE Hyphens(buf, SelectorTokens(buf, PseudoPrefix(buf, p)))

RECURSIVE SelectorList(_, _)
RECURSIVE SelectorParens(_, _)

\* sequence< `(`, optional_spaces, optional< re_selector_list >,
\* optional_spaces, `)` >
SelectorParens(buf, p) ==
  IF LookAt(buf, p) # "(" THEN 0
  ELSE With({IF LookAt(buf, OptionalSpaces(buf, q)) = ")"
             THEN OptionalSpaces(buf, q) + 1 ELSE 0
               : q \in {SelectorList(buf, OptionalSpaces(buf, p + 1))}})

\* one round of the one_plus of re_selector_list: spaces, the parentheses,
\* the main selector match; 0 when none of them matches
SelectorRound(buf, p) ==
  IF LookAt(buf, p) = " " THEN OptionalSpaces(buf, p)
  ELSE With({IF q # 0 THEN q ELSE SelectorMain(buf, p)
               : q \in {SelectorParens(buf, p)}})

\* the rounds of re_selector_list from p: where the match ends (p if none)
SelectorList(buf, p) ==
  With({IF q = 0 THEN p ELSE SelectorList(buf, q) : q \in {SelectorRound(buf, p)}})

\* peek< re_selector_list >(p): the end of the match, 0 without a match
re_selector_list(buf, p) ==
  With({IF q = p THEN 0 ELSE q : q \in {SelectorList(buf, p)}})

\* Lookahead(): found, error, position null and the three flags false
NewLookahead ==
  [found |-> 0, error |-> 0, position |-> 0, parsable |-> FALSE,
   has_interpolants |-> FALSE, is_custom_property |-> FALSE]

\* the scan for an interpolation, both lookaheads: TRUE if one starts in [p, q)
RECURSIVE ScanInterpolants(_, _, _)
ScanInterpolants(buf, p, q) ==
  IF p >= q THEN FALSE
  ELSE IF LookAt(buf, p) = "#{}" THEN TRUE
  ELSE ScanInterpolants(buf, p + 1, q)

\* lookahead_for_selector: the while loop; the flag as left at the end
RECURSIVE ScanColons(_, _, _, _, _, _)
ScanColons(buf, p, q, could_be_property, could_be_escaped, custom) ==
  IF p >= q THEN custom
  ELSE IF LookAt(buf, p) = "#{}" THEN custom
  ELSE ScanColons(buf, p + 1, q, could_be_property, LookAt(buf, p) = "\\",
                  IF LookAt(buf, p) = ":" /\ ~could_be_escaped
                  THEN could_be_property \/ p + 1 = q \/ LookAt(buf, p + 1) = " "
                  ELSE custom)

\* not the code: the flag left as Lookahead() made it
Parsable_unset(has_interpolants) == FALSE

\* rv.parsable = ! rv.has_interpolants
Parsable(has_interpolants) == ~has_interpolants

\* lookahead_for_selector
LookaheadSelector(buf, start) ==
  With({IF q = 0
        THEN [NewLookahead EXCEPT !.error = start,
                                  !.parsable = Parsable(FALSE)]
        ELSE [found |-> IF LookAt(buf, q) \in {"{", "("} THEN q ELSE 0,
              error |-> IF LookAt(buf, q) \in {"{", "(", "NUL"} THEN 0 ELSE q,
              position |-> q,
              parsable |-> Parsable(ScanInterpolants(buf, start, q)),
              has_interpolants |-> ScanInterpolants(buf, start, q),
              is_custom_property |->
                ScanColons(buf, start, q,
                           LookAt(buf, start) = "-" /\ LookAt(buf, start + 1) = "-",
                           FALSE, FALSE)]
          : q \in {re_selector_list(buf, start)}})

\* lookahead_for_include
LookaheadInclude(buf, start) ==
  With({IF rv.position # 0 /\ LookAt(buf, rv.position) \in {";", "}"}
        THEN [rv EXCEPT !.found = rv.position]
        ELSE rv
          : rv \in {LookaheadSelector(buf, start)}})

\* skip_over_scopes< `(`, `)` > behind an opening parenthesis
RECURSIVE SkipParens(_, _, _)
SkipParens(buf, p, depth) ==
  CASE LookAt(buf, p) = "NUL" -> 0
    [] LookAt(buf, p) = ")" -> IF depth = 1 THEN p + 1 ELSE SkipParens(buf, p + 1, depth - 1)
    [] LookAt(buf, p) = "(" -> SkipParens(buf, p + 1, depth + 1)
    [] OTHER -> SkipParens(buf, p + 1, depth)

\* sequence< interpolant, optional< quoted_string > >
InterpolantQuoted(buf, p) ==
  IF interpolant(buf, p) = 0 THEN 0
  ELSE IF quoted_string(buf, p + 1) # 0 THEN quoted_string(buf, p + 1)
  ELSE p + 1

\* the alternatives of a value token: interpolant, identifier, a scope of
\* parentheses with an interpolant behind it
ValueToken(buf, p) ==
  IF InterpolantQuoted(buf, p) # 0 THEN InterpolantQuoted(buf, p)
  ELSE IF identifier(buf, p) # 0 THEN identifier(buf, p)
  ELSE IF LookAt(buf, p) = "(" /\ SkipParens(buf, p + 1, 1) # 0
       THEN InterpolantQuoted(buf, SkipParens(buf, p + 1, 1))
       ELSE 0

\* non_greedy< value token, one of `{` `}` `;` >
RECURSIVE ValueEnd(_, _)
ValueEnd(buf, p) ==
  IF LookAt(buf, p) \in {"{", "}", ";"} THEN p
  ELSE With({IF n = 0 THEN 0 ELSE ValueEnd(buf, n) : n \in {ValueToken(buf, p)}})

\* lookahead_for_value
LookaheadValue(buf, start) ==
  With({IF q = 0 \/ q = start THEN NewLookahead
        ELSE [NewLookahead EXCEPT
                !.has_interpolants = ScanInterpolants(buf, start, q),
                !.position = q,
                !.found = q]
          : q \in {ValueEnd(buf, start)}})

\* longest buffer, in characters, of the exhaustive part of the inputs
MaxLookLen == 3

\* most pieces of a buffer put together from pieces
MaxLookParts == 3

LookChars == {"a", "-", ":", " ", "#{}", "{"}

LookPieces ==
  {<<"-", "-">>, <<"a">>, <<":", "a">>, <<"\"", ":", " ", "\"">>, <<"#{}">>,
   <<"\\", ":">>, <<"(", "a", ")">>, <<" ">>}

LookEnds == {<<"{">>, <<";">>, <<"}">>, <<"(">>, <<>>}

RECURSIVE Flatten(_)
Flatten(ss) == IF ss = <<>> THEN <<>> ELSE ss[1] \o Flatten(Tail(ss))

LookBuffers ==
  UNION {[1..n -> LookChars] : n \in 0..MaxLookLen}
  \cup {Flatten(ps) \o e :
          ps \in UNION {[1..n -> LookPieces] : n \in 1..MaxLookParts},
          e \in LookEnds}

\* the parser as a lookahead finds it: the cursor, the end of the buffer,
\* the position tracker, the two stacks
LookParser(buf, p) ==
  [position |-> p, end |-> Len(buf) + 1, pstate |-> p,
   block_stack |-> IF p = 1 THEN <<"root">> ELSE <<"root", "body">>,
   stack |-> IF p = 1 THEN <<"Root">> ELSE <<"Root", "Rules">>]

LookInputs ==
  UNION {{[fn |-> "lookahead", called |-> "", buf |-> b,
           entry |-> LookParser(b, p), parser |-> LookParser(b, p),
           rv |-> NewLookahead, dispatch |-> ""]
            : p \in (IF Len(b) <= MaxLookLen THEN 1..(Len(b) + 1) ELSE {1})}
         : b \in LookBuffers}

InitLookahead ==
  /\ InitParser
  /\ vocab = [items |-> {}, len |-> 0]
  /\ bom = IdleBom
  /\ imp = IdleImp
  /\ sub \in LookInputs

LookIdle == sub.fn = "lookahead" /\ sub.called = ""

\* lookahead_for_selector(position), as parse_at_root_block calls it
CallLookaheadSelector ==
  /\ LookIdle
  /\ sub' = [sub EXCEPT !.called = "lookahead_for_selector",
                        !.rv = LookaheadSelector(sub.buf, sub.parser.position)]
  /\ UNCHANGED <<pvars, bom, imp>>

\* lookahead_for_include(position), as the @extend branch calls it
CallLookaheadInclude ==
  /\ LookIdle
  /\ sub' = [sub EXCEPT !.called = "lookahead_for_include",
                        !.rv = LookaheadInclude(sub.buf, sub.parser.position)]
  /\ UNCHANGED <<pvars, bom, imp>>

\* lookahead_for_value(position), as parse_declaration calls it
CallLookaheadValue ==
  /\ LookIdle
  /\ sub' = [sub EXCEPT !.called = "lookahead_for_value",
                        !.rv = LookaheadValue(sub.buf, sub.parser.position)]
  /\ UNCHANGED <<pvars, bom, imp>>

\* the ruleset branch: no error and no custom property
RulesetBranch(rv) == rv.error = 0 /\ ~rv.is_custom_property

\* parse_block_node on a statement that starts with none of the keywords
\* in front of the ruleset branch: the white-space is lexed, then the
\* lookahead decides between parse_ruleset and the branches behind it
BlockNodeLookahead ==
  /\ LookIdle
  /\ LET p == OptionalSpaces(sub.buf, sub.parser.position)
         rv == LookaheadSelector(sub.buf, p)
     IN sub' = [sub EXCEPT !.called = "parse_block_node",
                           !.parser.position = p,
                           !.parser.pstate = p,
                           !.rv = rv,
                           !.dispatch = IF RulesetBranch(rv) THEN "parse_ruleset"
                                        ELSE "declaration"]
  /\ UNCHANGED <<pvars, bom, imp>>

NextLookahead ==
  \/ CallLookaheadSelector
  \/ CallLookaheadInclude
  \/ CallLookaheadValue
  \/ BlockNodeLookahead

SpecLookahead == InitLookahead /\ [][NextLookahead]_vars

LookaheadCalled ==
  /\ sub.fn = "lookahead"
  /\ sub.called \in {"lookahead_for_selector", "lookahead_for_include",
                     "lookahead_for_value"}

\* a lookahead returns with the cursor, the end of the buffer, the position
\* tracker, the block stack and the scope stack as they were on entry
LookaheadLeavesParser == LookaheadCalled => sub.parser = sub.entry

\* C21 as stated: the three lookaheads leave the parser state as it was on
\* entry, and parsable in the returned record is the negation of
\* has_interpolants
C21_LookaheadPureAndParsable ==
  LookaheadCalled =>
    /\ sub.parser = sub.entry
    /\ sub.rv.parsable = ~sub.rv.has_interpolants

\* C21: the three lookaheads leave the parser state as it was on entry;
\* parsable is the negation of has_interpolants in the record of
\* lookahead_for_selector and lookahead_for_include, and is false in every
\* record of lookahead_for_value, which never assigns it
C21_LookaheadPure ==
  LookaheadCalled =>
    /\ sub.parser = sub.entry
    /\ sub.called # "lookahead_for_value" =>
         sub.rv.parsable = ~sub.rv.has_interpolants
    /\ sub.called = "lookahead_for_value" => ~sub.rv.parsable

\* a selector lookahead from inside the buffer that met an interpolation
C21_Witness ==
  /\ sub.fn = "lookahead"
  /\ sub.called = "lookahead_for_selector"
  /\ sub.entry.position > 1
  /\ sub.rv.has_interpolants
  /\ ~sub.rv.parsable
  /\ sub.rv.found # 0

\* parse_block_node has looked ahead for a selector
BlockNodeLooked == sub.fn = "lookahead" /\ sub.called = "parse_block_node"

\* the text lookahead_for_selector scanned: from the cursor to rv.position
ScannedText ==
  IF sub.rv.position = 0 THEN {}
  ELSE sub.parser.position..(sub.rv.position - 1)

\* a colon of the scanned text with no backslash in front of it
UnescapedColon(i) ==
  /\ i \in ScannedText
  /\ sub.buf[i] = ":"
  /\ i = sub.parser.position \/ sub.buf[i - 1] # "\\"

\* an unescaped colon followed by white-space or ending the scanned text
DeclarationColon ==
  \E i \in ScannedText :
    /\ UnescapedColon(i)
    /\ i + 1 = sub.rv.position \/ LookAt(sub.buf, i + 1) = " "

\* the text starts with -- and holds an unescaped colon
CustomPropertyName ==
  /\ LookAt(sub.buf, sub.parser.position) = "-"
  /\ LookAt(sub.buf, sub.parser.position + 1) = "-"
  /\ \E i \in ScannedText : UnescapedColon(i)

\* without such a colon a selector that is found goes to parse_ruleset
RulesetWithoutDeclarationColon ==
  BlockNodeLooked /\ ~DeclarationColon /\ ~CustomPropertyName /\ sub.rv.found # 0
    => sub.dispatch = "parse_ruleset"

\* C22: a statement whose scanned text holds an unescaped colon followed by
\* white-space or ending the text, or starts with -- and holds an unescaped
\* colon, is flagged as a custom property and not given to parse_ruleset;
\* any other statement with a selector found is given to parse_ruleset
C22_SelectorOrDeclaration ==
  BlockNodeLooked =>
    IF DeclarationColon \/ CustomPropertyName
    THEN sub.rv.is_custom_property /\ sub.dispatch # "parse_ruleset"
    ELSE sub.rv.found # 0 => sub.dispatch = "parse_ruleset"

\* ------------------------------------------------------------------
\* String schemas: parse_selector_schema and parse_interpolated_chunk on
\* the characters a # { }, parse_css_variable_value and parse_value_schema
\* on units (a a character of value text, q a quoted string without
\* interpolation, #{} one whole interpolation)
\* ------------------------------------------------------------------

\* SASS_MEMORY_NEW(String_Constant, pstate, text)
Literal(text) == [kind |-> "String_Constant", text |-> text]

\* the expression of an interpolation, is_interpolant(true)
Interpolant(text) == [kind |-> "interpolant", text |-> text]

SchemaOk(schema, pos) ==
  [err |-> "", schema |-> schema, pos |-> pos, brackets |-> <<>>, quoted |-> FALSE]

SchemaErr(msg, pos, brackets) ==
  [err |-> msg, schema |-> <<>>, pos |-> pos, brackets |-> brackets,
   quoted |-> FALSE]

ExpectedExpressionWasMsg == "Invalid CSS after : expected expression (e.g. 1px, bold), was "

UnterminatedMsg == "unterminated interpolant inside string constant "

EmptyCustomPropertyMsg == "Custom property values may not be empty."

\* find_first_in_interval< exactly<hash_lbrace> >(i, e): 0 if there is none
RECURSIVE find_first_in_interval(_, _, _)
find_first_in_interval(buf, i, e) ==
  IF i + 1 >= e THEN 0
  ELSE IF buf[i] = "#" /\ buf[i + 1] = "{" THEN i
  ELSE find_first_in_interval(buf, i + 1, e)

\* skip_over_scopes< exactly<hash_lbrace>, exactly<rbrace> >(i, e): behind
\* the closing brace of the interpolation entered, 0 if it is not closed
RECURSIVE skip_over_scopes(_, _, _, _)
skip_over_scopes(buf, i, e, level) ==
  IF i >= e THEN 0
  ELSE IF i + 1 < e /\ buf[i] = "#" /\ buf[i + 1] = "{"
       THEN skip_over_scopes(buf, i + 2, e, level + 1)
  ELSE IF buf[i] = "}"
       THEN IF level = 0 THEN i + 1 ELSE skip_over_scopes(buf, i + 1, e, level - 1)
  ELSE skip_over_scopes(buf, i + 1, e, level)

\* not the code: a segment appended character by character
AppendSegment_split(schema, text) ==
  schema \o [k \in 1..Len(text) |-> Literal(<<text[k]>>)]

\* schema->append(String_Constant(i, p)): the segment in front of p
AppendSegment(schema, text) == Append(schema, Literal(text))

\* peek< sequence< optional_spaces, exactly<rbrace> > >(p + 2)
EmptyInterpolant(buf, p, e) == p + 2 < e /\ buf[p + 2] = "}"

\* parse_selector_schema: the while loop
RECURSIVE SelectorSchemaLoop(_, _, _, _)
SelectorSchemaLoop(buf, i, e, schema) ==
  IF i >= e THEN SchemaOk(schema, i)
  ELSE With({
    IF p = 0 THEN SchemaOk(AppendSegment(schema, SubSeq(buf, i, e - 1)), e)
    ELSE With({
      IF j = 0 \/ EmptyInterpolant(buf, p, e)
      THEN SchemaErr(ExpectedExpressionWasMsg, p + 2, <<>>)
      ELSE SelectorSchemaLoop(buf, j, e,
             Append(IF i < p THEN AppendSegment(schema, SubSeq(buf, i, p - 1))
                             ELSE schema,
                    Interpolant(SubSeq(buf, p + 2, j - 2))))
        : j \in {skip_over_scopes(buf, p + 2, e, 0)}})
      : p \in {find_first_in_interval(buf, i, e)}})

\* parse_selector_schema(end_of_selector)
parse_selector_schema(buf, end_of_selector) ==
  SelectorSchemaLoop(buf, 1, end_of_selector, <<>>)

\* parse_interpolated_chunk: the while loop; i = j, ++i puts i behind the
\* closing brace
RECURSIVE ChunkLoop(_, _, _, _)
ChunkLoop(buf, i, e, schema) ==
  IF i >= e THEN SchemaOk(schema, i)
  ELSE With({
    IF p = 0 THEN SchemaOk(AppendSegment(schema, SubSeq(buf, i, e - 1)), e)
    ELSE IF EmptyInterpolant(buf, p, e)
    THEN SchemaErr(ExpectedExpressionWasMsg, p + 2, <<>>)
    ELSE With({
      IF j = 0 THEN SchemaErr(UnterminatedMsg, i, <<>>)
      ELSE ChunkLoop(buf, j, e,
             Append(IF i < p THEN AppendSegment(schema, SubSeq(buf, i, p - 1))
                             ELSE schema,
                    Interpolant(SubSeq(buf, p + 2, j - 2))))
        : j \in {skip_over_scopes(buf, p + 2, e, 0)}})
      : p \in {find_first_in_interval(buf, i, e)}})

\* parse_interpolated_chunk(chunk): a String_Quoted (no schema) when the
\* chunk has no interpolant
parse_interpolated_chunk(buf) ==
  IF find_first_in_interval(buf, 1, Len(buf) + 1) = 0
  THEN [SchemaOk(<<>>, Len(buf) + 1) EXCEPT !.quoted = TRUE]
  ELSE ChunkLoop(buf, 1, Len(buf) + 1, <<>>)

UnitAt(buf, p) == IF p \in 1..Len(buf) THEN buf[p] ELSE "EOF"

\* css_variable_top_level_value (no bracket open) and css_variable_value:
\* the characters of a run of value text
ValueText(brackets) == IF brackets = <<>> THEN {"a"} ELSE {"a", ";"}

\* lex< css_variable_(top_level_)value >: the end of the run from p
RECURSIVE ValueRun(_, _, _)
ValueRun(buf, p, brackets) ==
  IF UnitAt(buf, p) \in ValueText(brackets) THEN ValueRun(buf, p + 1, brackets) ELSE p

\* Util::opening_bracket_for
opening_bracket_for(c) ==
  CASE c = ")" -> "(" [] c = "]" -> "[" [] c = "}" -> "{" [] OTHER -> ""

\* Util::closing_bracket_for
closing_bracket_for(c) ==
  CASE c = "(" -> ")" [] c = "[" -> "]" [] c = "{" -> "}" [] OTHER -> ""

\* ": expected \"" + closing_bracket_for(brackets.back()) + "\", was "
ExpectedClosingMsg(brackets) ==
  CASE closing_bracket_for(brackets[Len(brackets)]) = ")" ->
         "Invalid CSS after : expected \")\", was "
    [] closing_bracket_for(brackets[Len(brackets)]) = "]" ->
         "Invalid CSS after : expected \"]\", was "
    [] OTHER -> "Invalid CSS after : expected \"}\", was "

\* not the code: any closing bracket closes the innermost open bracket
BracketMismatch_none(brackets, closing_bracket) == FALSE

\* brackets.back() != Util::opening_bracket_for(closing_bracket)
BracketMismatch(brackets, closing_bracket) ==
  brackets[Len(brackets)] # opening_bracket_for(closing_bracket)

\* parse_css_variable_value: behind the loop
CssVariableValueEnd(pos, brackets, schema) ==
  IF brackets # <<>> THEN SchemaErr(ExpectedClosingMsg(brackets), pos, brackets)
  ELSE IF schema = <<>> THEN SchemaErr(EmptyCustomPropertyMsg, pos, brackets)
  ELSE SchemaOk(schema, pos)

\* parse_css_variable_value: the while (true) loop
RECURSIVE CssVariableValueLoop(_, _, _, _)
CssVariableValueLoop(buf, pos, brackets, schema) ==
  CASE UnitAt(buf, pos) \in ValueText(brackets) ->
         CssVariableValueLoop(buf, ValueRun(buf, pos, brackets), brackets,
           Append(schema, Literal(SubSeq(buf, pos, ValueRun(buf, pos, brackets) - 1))))
    [] UnitAt(buf, pos) = "#{}" ->
         CssVariableValueLoop(buf, pos + 1, brackets,
                              Append(schema, Interpolant(<<"#{}">>)))
    [] UnitAt(buf, pos) = "q" ->
         CssVariableValueLoop(buf, pos + 1, brackets, Append(schema, Literal(<<"q">>)))
    [] UnitAt(buf, pos) \in {"(", "[", "{"} ->
         CssVariableValueLoop(buf, pos + 1, Append(brackets, UnitAt(buf, pos)),
                              Append(schema, Literal(<<UnitAt(buf, pos)>>)))
    [] UnitAt(buf, pos) \in {")", "]", "}"} ->
         IF brackets = <<>> THEN CssVariableValueEnd(pos, brackets, schema)
         ELSE IF BracketMismatch(brackets, UnitAt(buf, pos))
         THEN SchemaErr(ExpectedClosingMsg(brackets), pos, brackets)
         ELSE CssVariableValueLoop(buf, pos + 1, Pop(brackets),
                                   Append(schema, Literal(<<UnitAt(buf, pos)>>)))
    [] OTHER -> CssVariableValueEnd(pos, brackets, schema)

\* parse_css_variable_value
parse_css_variable_value(buf, pos) == CssVariableValueLoop(buf, pos, <<>>, <<>>)

\* lex< identifier >: the end of the run of letters from p
RECURSIVE IdentifierRun(_, _, _)
IdentifierRun(buf, p, stop) ==
  IF p < stop /\ UnitAt(buf, p) = "a" THEN IdentifierRun(buf, p + 1, stop) ELSE p

\* lex< spaces >
RECURSIVE SpacesRun(_, _, _)
SpacesRun(buf, p, stop) ==
  IF p < stop /\ UnitAt(buf, p) = " " THEN SpacesRun(buf, p + 1, stop) ELSE p

\* parse_value_schema: what is left in front of stop when the loop ends
ValueSchemaRest(buf, pos, stop, schema) ==
  IF pos # stop THEN SchemaOk(Append(schema, Literal(SubSeq(buf, pos, stop - 1))), stop)
  ELSE SchemaOk(schema, stop)

\* parse_value_schema: the while loop over interpolations, the characters
\* % - + and identifiers
RECURSIVE ValueSchemaLoop(_, _, _, _)
ValueSchemaLoop(buf, pos, stop, schema) ==
  IF pos >= stop THEN ValueSchemaRest(buf, pos, stop, schema)
  ELSE With({
    CASE p >= stop -> ValueSchemaRest(buf, p, stop, schema)
      [] p < stop /\ UnitAt(buf, p) = "#{}" ->
           ValueSchemaLoop(buf, p + 1, stop, Append(schema, Interpolant(<<"#{}">>)))
      [] p < stop /\ UnitAt(buf, p) = "%" ->
           ValueSchemaLoop(buf, p + 1, stop, Append(schema, Literal(<<"%">>)))
      [] p < stop /\ UnitAt(buf, p) = "a" ->
           ValueSchemaLoop(buf, IdentifierRun(buf, p, stop), stop,
             Append(schema, Literal(SubSeq(buf, p, IdentifierRun(buf, p, stop) - 1))))
      [] OTHER -> ValueSchemaRest(buf, p, stop, schema)
      : p \in {SpacesRun(buf, pos, stop)}})

\* parse_value_schema(stop)
parse_value_schema(buf, stop) == ValueSchemaLoop(buf, 1, stop, <<>>)

\* longest chunk, in characters
MaxChunkLen == 6

\* longest custom property value, in units
MaxValueUnits == 4

ChunkBuffers == UNION {[1..n -> {"a", "#", "{", "}"}] : n \in 0..MaxChunkLen}

CssValueBuffers ==
  UNION {[1..n -> {"a", "(", ")", "[", "]", "{", "}", ";"}] : n \in 0..MaxValueUnits}
  \cup UNION {[1..n -> {"a", "#{}", "q", "(", ")"}] : n \in 0..MaxValueUnits}

ValueSchemaBuffers ==
  UNION {[1..n -> {"a", " ", "#{}", "%", ";"}] : n \in 0..MaxValueUnits}

SchemaInput(fn, buf) ==
  [fn |-> fn, called |-> "", buf |-> buf, err |-> "", schema |-> <<>>,
   pos |-> 1, brackets |-> <<>>, quoted |-> FALSE]

InitSchema ==
  /\ InitParser
  /\ vocab = [items |-> {}, len |-> 0]
  /\ bom = IdleBom
  /\ imp = IdleImp
  /\ sub \in {SchemaInput("chunk", b) : b \in ChunkBuffers}
          \cup {SchemaInput("css_variable", b) : b \in CssValueBuffers}
          \cup {SchemaInput("value", b) : b \in ValueSchemaBuffers}

SchemaResult(called, r) ==
  sub' = [sub EXCEPT !.called = called, !.err = r.err, !.schema = r.schema,
                     !.pos = r.pos, !.brackets = r.brackets, !.quoted = r.quoted]

\* parse_selector_schema(lookahead.found) on the text of a selector
CallParseSelectorSchema ==
  /\ sub.fn = "chunk" /\ sub.called = ""
  /\ SchemaResult("parse_selector_schema",
                  parse_selector_schema(sub.buf, Len(sub.buf) + 1))
  /\ UNCHANGED <<pvars, bom, imp>>

\* parse_interpolated_chunk(lexed) on the text of a token
CallParseInterpolatedChunk ==
  /\ sub.fn = "chunk" /\ sub.called = ""
  /\ SchemaResult("parse_interpolated_chunk", parse_interpolated_chunk(sub.buf))
  /\ UNCHANGED <<pvars, bom, imp>>

\* parse_css_variable_value() behind the colon of a custom property
CallParseCssVariableValue ==
  /\ sub.fn = "css_variable" /\ sub.called = ""
  /\ SchemaResult("parse_css_variable_value", parse_css_variable_value(sub.buf, 1))
  /\ UNCHANGED <<pvars, bom, imp>>

\* parse_value_schema(stop) on the text of a value
CallValueSchema ==
  /\ sub.fn = "value" /\ sub.called = ""
  /\ SchemaResult("parse_value_schema", parse_value_schema(sub.buf, Len(sub.buf) + 1))
  /\ UNCHANGED <<pvars, bom, imp>>

NextSchema ==
  \/ CallParseSelectorSchema
  \/ CallParseInterpolatedChunk
  \/ CallParseCssVariableValue
  \/ CallValueSchema

SpecSchema == InitSchema /\ [][NextSchema]_vars

\* a schema was built: the function returned without an error
SchemaBuilt(called) ==
  sub.fn \in {"chunk", "css_variable", "value"} /\ sub.called = called /\ sub.err = ""

\* no two adjacent segments of the schema are both literal text
NoAdjacentLiterals ==
  \A k \in 1..(Len(sub.schema) - 1) :
    ~(sub.schema[k].kind = "String_Constant"
      /\ sub.schema[k + 1].kind = "String_Constant")

\* the literal segments and the interpolations of the schema, put together
\* again, are the text the schema was built from
RECURSIVE SchemaText(_)
SchemaText(schema) ==
  IF schema = <<>> THEN <<>>
  ELSE (IF schema[1].kind = "String_Constant" THEN schema[1].text
        ELSE <<"#", "{">> \o schema[1].text \o <<"}">>) \o SchemaText(Tail(schema))

CssValueCalled == sub.fn = "css_variable" /\ sub.called = "parse_css_variable_value"

\* the brackets among the units of a piece of the value
RECURSIVE BracketsOf(_)
BracketsOf(s) ==
  IF s = <<>> THEN <<>>
  ELSE (IF s[1] \in {"(", ")", "[", "]", "{", "}"} THEN <<s[1]>> ELSE <<>>)
       \o BracketsOf(Tail(s))

\* a sequence of brackets with every opening bracket that is directly
\* followed by its closing bracket taken out, again and again
RECURSIVE CancelPairs(_)
CancelPairs(s) ==
  LET pairs == {i \in 1..(Len(s) - 1) :
                  <<s[i], s[i + 1]>> \in {<<"(", ")">>, <<"[", "]">>, <<"{", "}">>}}
  IN IF pairs = {} THEN s
     ELSE CancelPairs(SubSeq(s, 1, Min(pairs) - 1) \o SubSeq(s, Min(pairs) + 2, Len(s)))

\* what the parser consumed, and the brackets of it that are left open
CssValueConsumed == SubSeq(sub.buf, 1, sub.pos - 1)

CssValueOpen == CancelPairs(BracketsOf(CssValueConsumed))

CssValueExpected(open) ==
  CASE open = "(" -> "Invalid CSS after : expected \")\", was "
    [] open = "[" -> "Invalid CSS after : expected \"]\", was "
    [] OTHER -> "Invalid CSS after : expected \"}\", was "

\* a normal return: what was consumed is not empty and its brackets are
\* closed in properly nested order
CssValueReturnsBalanced ==
  CssValueCalled /\ sub.err = "" =>
    /\ sub.schema # <<>>
    /\ CssValueConsumed # <<>>
    /\ CssValueOpen = <<>>

\* where the parser stops with a bracket open: at a closing bracket that does
\* not match the innermost open bracket or at the end of the value, with the
\* error that names the closing bracket expected
CssValueOpenBracketError ==
  CssValueCalled /\ CssValueOpen # <<>> =>
    /\ \A k \in 1..Len(CssValueOpen) : CssValueOpen[k] \in {"(", "[", "{"}
    /\ sub.err = CssValueExpected(CssValueOpen[Len(CssValueOpen)])
    /\ \/ UnitAt(sub.buf, sub.pos) = "EOF"
       \/ /\ UnitAt(sub.buf, sub.pos) \in {")", "]", "}"}
          /\ UnitAt(sub.buf, sub.pos)
               # closing_bracket_for(CssValueOpen[Len(CssValueOpen)])

\* where the parser stops with no bracket open: in front of a closing
\* bracket, of a `;` or of the end, none of them consumed; the value is
\* returned unless it is empty
CssValueEndsAtClosing ==
  CssValueCalled /\ CssValueOpen = <<>> =>
    /\ UnitAt(sub.buf, sub.pos) \in {")", "]", "}", ";", "EOF"}
    /\ sub.err = IF CssValueConsumed = <<>> THEN EmptyCustomPropertyMsg ELSE ""

\* C24: parse_css_variable_value returns normally only with a non-empty
\* value whose brackets are closed in properly nested order; a closing
\* bracket that does not match the innermost open bracket and a bracket left
\* open at the end raise the error naming the expected closing bracket; an
\* empty value raises the empty custom property error; a closing bracket met
\* with no bracket open ends the value and is not consumed
C24_CssVariableValue ==
  /\ CssValueReturnsBalanced
  /\ CssValueOpenBracketError
  /\ CssValueEndsAtClosing

\* a value with nested brackets returned: ( [ ] ), four segments
C24_Witness ==
  /\ CssValueCalled
  /\ sub.err = ""
  /\ sub.buf = <<"(", "[", "]", ")">>
  /\ sub.pos = 5
  /\ Len(sub.schema) = 4

\* ------------------------------------------------------------------
\* The block stack and the scope stack against the items consumed
\* ------------------------------------------------------------------

\* the scopes a statement has pushed when the statements of its block are
\* parsed
ScopesOf(t) ==
  CASE t = "sel{" -> <<"Rules">>
    [] t \in {"@if{", "@if ce{", "@for{", "@each{", "@while{"} -> <<"Control">>
    [] t = "@media{" -> <<"Media">>
    [] t = "@mixin{" -> <<"Mixin">>
    [] t = "@function{" -> <<"Function">>
    [] t = "@at-root{" -> <<"AtRoot">>
    [] t = "@at-root sel{" -> <<"AtRoot", "Rules">>
    [] t = "p:{" -> <<"Properties">>
    [] OTHER -> <<>>

\* an open block: the index of the item that opened it, the scopes pushed
\* for it, whether an @else can follow its `}`
OpenBlock(at, scopes, is_if) == [at |-> at, scopes |-> scopes, is_if |-> is_if]

NoBlock == OpenBlock(0, <<>>, FALSE)

RECURSIVE OpenBlocks(_, _, _, _, _)
\* the blocks that the items i..n of src leave open, innermost last: an
\* opener opens one, `}` closes the innermost, an @else or @else if behind
\* the `}` of an @if goes on under the scopes of that @if
OpenBlocks(src, i, n, open, last) ==
  IF i > n THEN open
  ELSE CASE src[i] \in Openers ->
              OpenBlocks(src, i + 1, n,
                Append(open, OpenBlock(i, ScopesOf(src[i]),
                                       src[i] \in {"@if{", "@if ce{"})),
                NoBlock)
         [] src[i] = "}" /\ open # <<>> ->
              OpenBlocks(src, i + 1, n, Pop(open),
                         IF Top(open).is_if THEN Top(open) ELSE NoBlock)
         [] src[i] = "@else if{" ->
              OpenBlocks(src, i + 1, n,
                Append(open, OpenBlock(i, last.scopes \o <<"Control">>, TRUE)),
                NoBlock)
         [] src[i] = "@else{" ->
              OpenBlocks(src, i + 1, n,
                         Append(open, OpenBlock(i, last.scopes, FALSE)), NoBlock)
         [] OTHER -> OpenBlocks(src, i + 1, n, open, NoBlock)

\* the blocks open at the cursor
OpenAtCursor == OpenBlocks(source, 1, position, <<>>, NoBlock)

RECURSIVE ScopesOfBlocks(_)
ScopesOfBlocks(open) ==
  IF open = <<>> THEN <<>> ELSE open[1].scopes \o ScopesOfBlocks(Tail(open))

\* between two statements the scope stack is Root and the scopes of the
\* open blocks, the block stack the two root blocks and the open blocks:
\* a statement that has returned has left nothing on either stack, and
\* the block whose statements are parsed is the top of the block stack
StacksAreOpenBlocks ==
  status = "running" /\ InLoop =>
    /\ stack = <<"Root">> \o ScopesOfBlocks(OpenAtCursor)
    /\ [k \in 1..Len(block_stack) |-> block_stack[k].pstate]
         = <<0, 0>> \o [k \in 1..Len(OpenAtCursor) |-> OpenAtCursor[k].at]

\* b2 is b1, or b1 with one statement appended, or b1 with a block given to
\* its last statement
SameOrAppended(b1, b2) ==
  /\ b2.pstate = b1.pstate
  /\ b2.is_root = b1.is_root
  /\ \/ b2.stmts = b1.stmts
     \/ Len(b2.stmts) = Len(b1.stmts) + 1
        /\ SubSeq(b2.stmts, 1, Len(b1.stmts)) = b1.stmts
     \/ /\ Len(b2.stmts) = Len(b1.stmts)
        /\ b1.stmts # <<>>
        /\ SubSeq(b2.stmts, 1, Len(b1.stmts) - 1)
             = SubSeq(b1.stmts, 1, Len(b1.stmts) - 1)
        /\ Top(b1.stmts).type = "Declaration"
        /\ [Top(b2.stmts) EXCEPT !.block = <<>>] = Top(b1.stmts)

\* a step changes no block below the innermost block that is open before
\* and after it, appends at most one statement to that one, and a block it
\* pushes is empty
AppendsToOpenBlockOnly ==
  status = "running" /\ status' = "running" =>
    LET m == IF Len(block_stack) < Len(block_stack')
             THEN Len(block_stack) ELSE Len(block_stack')
    IN /\ \A k \in 1..(m - 1) : block_stack'[k] = block_stack[k]
       /\ SameOrAppended(block_stack[m], block_stack'[m])
       /\ \A k \in (m + 1)..Len(block_stack') : block_stack'[k].stmts = <<>>
       /\ Len(block_stack') <= Len(block_stack) + 1

\* after parse() both stacks are what they were before it
StacksRestored ==
  status = "done" => block_stack = <<Block(0, TRUE)>> /\ stack = <<"Root">>

\* C25: when a statement has returned the block stack and the scope stack
\* hold what they held before it; the block whose statements are parsed is
\* the top of the block stack, and a parsed statement is appended to it
\* and to no other block; after parse() both stacks are as before the call
C25_StacksBalanced ==
  /\ [](StacksAreOpenBlocks /\ StacksRestored)
  /\ [][AppendsToOpenBlockOnly]_vars

\* a ruleset with an @if in it has returned to the loop of the root block
C25_Witness ==
  /\ status = "running"
  /\ frames = <<>>
  /\ source = <<"sel{", "@if{", "}", "}">>
  /\ position = 4
  /\ stack = <<"Root">>
  /\ Len(block_stack) = 2
  /\ Len(Top(block_stack).stmts) = 1
  /\ Top(block_stack).stmts[1].type = "Ruleset"

\* ------------------------------------------------------------------
\* fold_operands: the operands and the operators of the tree, in order
\* ------------------------------------------------------------------

\* the in-order traversal of a tree: the kinds of the leaves with the
\* operators between them
RECURSIVE InOrder(_)
InOrder(e) ==
  IF e.kind = "Binary_Expression"
  THEN InOrder(e.kids[1]) \o <<e.op>> \o InOrder(e.kids[2])
  ELSE <<e.kind>>

\* x0 o1 x1 ... on xn as lexed
RECURSIVE InSourceOrder(_, _, _)
InSourceOrder(operands, ops, i) ==
  IF i > Len(operands) THEN <<>>
  ELSE <<ops[i]>> \o InOrder(operands[i]) \o InSourceOrder(operands, ops, i + 1)

FoldedOperators == sub.fn = "fold" /\ sub.status = "operators"

\* an interpolated schema among the operands behind the first factor
SchemaOperand ==
  \E k \in 1..Len(sub.input.operands) :
    sub.input.operands[k].kind = "String_Schema" /\ sub.input.operands[k].interp

\* with no interpolated schema behind the first factor the traversal of the
\* tree is the source
FoldKeepsOperatorsPlain ==
  FoldedOperators /\ ~SchemaOperand =>
    InOrder(sub.node)
      = InOrder(sub.input.base) \o InSourceOrder(sub.input.operands, sub.input.ops, 1)

\* C26: the in-order traversal of the tree fold_operands returns is
\* x0 o1 x1 ... on xn for every mix of operands, interpolated schemas
\* included: no operator is dropped, duplicated or replaced
C26_FoldKeepsOperators ==
  FoldedOperators =>
    InOrder(sub.node)
      = InOrder(sub.input.base) \o InSourceOrder(sub.input.operands, sub.input.ops, 1)

\* ------------------------------------------------------------------
\* parse_bracket_list on a space-separated sequence of items
\* ------------------------------------------------------------------

\* what parse_bracket_list consumed of the buffer
BracketContents == SubSeq(sub.input, 1, sub.pos - 1)

\* the indices at which the items of toks outside parentheses and brackets
\* start
TopItems(toks) ==
  {i \in DOMAIN toks : toks[i] \in {"n", "(", "["} /\ ExprDepth(toks, i) = 0}

\* the index of the k-th smallest element of a set of indices
RECURSIVE KthOf(_, _)
KthOf(S, k) == IF k = 1 THEN Min(S) ELSE KthOf(S \ {Min(S)}, k - 1)

\* parse_bracket_list has returned for contents that are two or more items
\* with no comma outside parentheses and brackets
BracketSpaceSequence ==
  /\ sub.fn = "expr"
  /\ sub.called = "parse_bracket_list"
  /\ sub.status = "done"
  /\ Cardinality(TopItems(BracketContents)) >= 2
  /\ TopLevel(BracketContents, ",") = {}

\* the result is one bracketed space list of the items of the contents
BracketListOfItems ==
  /\ sub.node.kind = "List"
  /\ sub.node.bracketed
  /\ sub.node.sep = "SPACE"
  /\ Len(sub.node.items) = Cardinality(TopItems(BracketContents))
  /\ \A k \in 1..Len(sub.node.items) :
       sub.node.items[k]
         = parse_disjunction(sub.input, KthOf(TopItems(BracketContents), k)).node

\* when the first item does not start with a parenthesis the result is the
\* bracketed space list of the items
BracketSequencePlain ==
  BracketSpaceSequence /\ sub.input[1] # "(" => BracketListOfItems

\* C27: for contents that are a space-separated sequence of n >= 2 items
\* with no comma outside parentheses, parse_bracket_list returns one
\* bracketed space list with those n items as its elements, whether or not
\* the first item starts with a parenthesis
C27_BracketSpaceList == BracketSpaceSequence => BracketListOfItems

\* ------------------------------------------------------------------
\* Declarations in root blocks
\* ------------------------------------------------------------------

\* this step of parse_block_node looks at a declaration
AtDeclaration == Dispatching("p:v") \/ Dispatching("p:{")

DeclarationRejected == status' = "error" /\ error_msg' = ExpectedOneSelectorMsg

DeclarationAccepted ==
  /\ status' = "running"
  /\ position' = position + 1
  /\ \E k \in DOMAIN block_stack' :
       /\ block_stack'[k].stmts # <<>>
       /\ Top(block_stack'[k].stmts).type = "Declaration"
       /\ Top(block_stack'[k].stmts).pstate = position + 1

\* the items that opened the blocks open at the cursor, innermost last
OpenItems == [k \in 1..Len(OpenAtCursor) |-> source[OpenAtCursor[k].at]]

ControlItems == {"@if{", "@if ce{", "@else{", "@else if{", "@for{", "@each{", "@while{"}

\* C28: a declaration is rejected with the expected 1 selector or at-rule
\* error whenever the open block is a root block and the innermost scope is
\* not AtRoot; so it is at the top level and directly inside control
\* directives at the top level, whose blocks inherit the root flag, while a
\* declaration directly inside the block of @at-root { } is accepted
C28_DeclarationInRootBlock ==
  [][AtDeclaration =>
       /\ (Top(block_stack).is_root /\ Top(stack) # "AtRoot") => DeclarationRejected
       /\ (\A k \in DOMAIN OpenItems : OpenItems[k] \in ControlItems)
            => DeclarationRejected
       /\ (OpenItems # <<>> /\ Top(OpenItems) = "@at-root{") => DeclarationAccepted
    ]_vars

\* a declaration in the @else of an @if at the top level has been rejected
C28_Witness ==
  /\ status = "error"
  /\ error_msg = ExpectedOneSelectorMsg
  /\ source = <<"@if{", "}", "@else{", "p:v">>
  /\ position = 3
  /\ Top(block_stack).is_root
  /\ Top(stack) = "Control"

\* ------------------------------------------------------------------
\* Termination of the statement loop
\* ------------------------------------------------------------------

\* the parser is sequential code: a step that can be taken is taken
SpecTermination == Init /\ [][Next]_vars /\ WF_vars(Next)

Terminated == status \in {"done", "error"}

\* the loop returned: to parse() at the end of the buffer or in front of
\* a `}`, or to the handler that waits for the `}` of its block
LoopReturns ==
  \/ status' = "done"
  \/ /\ frames # <<>>
     /\ position < Len(source')
     /\ source'[position + 1] = "}"
     /\ \/ Len(frames') < Len(frames)
        \/ Top(frames').phase # Top(frames).phase

\* a failure is an error with its message, never a plain return
LoopRaises == status' = "error" /\ error_msg' # ""

LoopStep ==
  InLoop =>
    \/ position' > position
    \/ LoopReturns
    \/ LoopRaises

\* C29: the statement loop terminates on every finite input: every step of
\* parse_block_nodes advances the cursor, returns at `}` or at the end of
\* the input, or raises an error, so parse() eventually returns the root
\* Block or raises; a failure is always a raised error
C29_LoopTerminates ==
  /\ <>Terminated
  /\ [][LoopStep /\ status' \in {"running", "done", "error"}]_vars
  /\ [](status = "done" => root # <<>>)
  /\ [](status = "error" => error_msg # "")

\* parse() returned the root block after a loop of three steps
C29_Witness ==
  /\ status = "done"
  /\ root # <<>>
  /\ source = <<"sel{", ";", "}">>
  /\ position = 3

\* ------------------------------------------------------------------
\* content-exists() inside a mixin
\* ------------------------------------------------------------------

ContentExistsItems == {"$v:ce", "$v:c_e", "@if ce{"}

\* the top of the scope stack when the call in item t is parsed: the
\* predicate of an @if is parsed after Control has been pushed
ScopeAtCall(t) == IF t = "@if ce{" THEN "Control" ELSE Top(stack)

ContentExistsAccepted == status' = "running" /\ position' = position + 1

ContentExistsRejected == status' = "error" /\ error_msg' = ContentExistsMsg

\* the cursor is in the body of a mixin or in rulesets, control directives
\* and property blocks nested in it
InsideMixin ==
  \E k \in DOMAIN OpenItems :
    /\ OpenItems[k] = "@mixin{"
    /\ \A j \in (k + 1)..Len(OpenItems) :
         OpenItems[j] \in ControlItems \cup {"sel{", "p:{"}

\* the call is accepted exactly when the top of the scope stack is Mixin
ContentExistsTopOfStack ==
  [][\A t \in ContentExistsItems :
       Dispatching(t) =>
         IF ScopeAtCall(t) = "Mixin" THEN ContentExistsAccepted
         ELSE ContentExistsRejected]_vars

\* C30: a call to content-exists() is accepted exactly when the top of the
\* scope stack is Mixin, and so directly in the body of a mixin and equally
\* inside a ruleset, control directive or property block nested in the mixin
C30_ContentExistsInMixin ==
  [][\A t \in ContentExistsItems :
       Dispatching(t) =>
         /\ IF ScopeAtCall(t) = "Mixin" THEN ContentExistsAccepted
            ELSE ContentExistsRejected
         /\ InsideMixin => ContentExistsAccepted]_vars

====
